---- MODULE Spec2Model ----
(***************************************************************************)
(* Model of the dynamic-site crawler of DynamicWebsiteRAG                  *)
(* (src/dynamic-rag-system.js).  One crawlDynamicSite invocation is a      *)
(* frame on a call stack; every await of the method is one step of the     *)
(* frame on top of the stack.  The browser, the site and the embedding     *)
(* service are external: their successes and failures are chosen           *)
(* nondeterministically.                                                   *)
(***************************************************************************)
EXTENDS Integers, Sequences, FiniteSets, TLC

VARIABLES
  pageBrowser,             \* this.pageBrowser: FALSE = null, TRUE = launched
  vectorStore,             \* this.vectorStore: sequence of [url, embedding]
  documents,               \* this.documents: sequence of [url, title, content, source]
  interactiveElementsMap,  \* this.interactiveElementsMap: url -> element list
  visitedUrls,             \* the Set shared by one top-level crawl call
  stack,                   \* call stack of crawlDynamicSite invocations
  contexts,                \* browsing contexts ever opened: [owner, open]
  options,                 \* this.options (maxInteractions, maxTokens)
  roots,                   \* root URLs the caller still has to crawl
  rootDepth,               \* depth argument the caller passes
  outcome,                 \* how the last top-level invocation ended
  plan,                    \* crawl calls the caller still has to start
  sessions,                \* number of crawl calls (visited sets) started so far
  faults,                  \* number of external failures injected so far
  invLog,                  \* history: one record per invocation that passed the guard
  docInv,                  \* history: invocation that appended documents[i]
  gotoCount,               \* history: page.goto calls per URL in this crawl call
  adapter,                 \* a Crawl4AIRagAdapter: its stores and its processCrawledData call
                           \* (its ragSystem is the DynamicWebsiteRAG of the variables above)
  search,                  \* a query being answered: retrieval and response generation
  chunker,                 \* a chunkText call: its arguments and its result
  kb,                      \* knowledge-base files and the export / import calls on them
  explorer,                \* an exploreInteractiveElements call on a rendered page
  cache,                   \* a RAG2System: its site cache and its getWebsiteData calls
  graph                    \* a LangGraphRAG: its workflow runs

vars == <<pageBrowser, vectorStore, documents, interactiveElementsMap,
          visitedUrls, stack, contexts, options, roots, rootDepth, outcome,
          plan, sessions, faults, invLog, docInv, gotoCount, adapter, search,
          chunker, kb, explorer, cache, graph>>

\* the state of a DynamicWebsiteRAG that only a crawl reads or writes
crawlVars == <<pageBrowser, interactiveElementsMap, visitedUrls, stack, contexts,
               options, roots, rootDepth, outcome, plan, sessions, faults,
               invLog, docInv, gotoCount>>

-----------------------------------------------------------------------------
(* Bounds of the model *)

MaxDepth == 2
MaxFaults == 2

(* Number of links followed per page: .slice(0, 5) *)
LinkCap == 5

-----------------------------------------------------------------------------
(* Text, tokens and chunking *)

\* A text is a sequence of paragraphs (separated by a blank line), a
\* paragraph a sequence of words (separated by one space).
TokenCount(word) ==
  CASE word = ""     -> 0
    [] word = "w1"   -> 1
    [] word = "w2"   -> 1
    [] word = "w3"   -> 2
    [] word = "long" -> 4
    [] OTHER         -> 1

RECURSIVE ParagraphTokens(_)
ParagraphTokens(p) ==
  IF p = <<>> THEN 0 ELSE TokenCount(Head(p)) + ParagraphTokens(Tail(p))

RECURSIVE SumParagraphs(_)
SumParagraphs(text) ==
  IF text = <<>> THEN 0 ELSE ParagraphTokens(Head(text)) + SumParagraphs(Tail(text))

\* encode(text).length: the tokens of the paragraphs plus one per separator
TextTokens(text) ==
  SumParagraphs(text) + (IF Len(text) > 0 THEN Len(text) - 1 ELSE 0)

\* encode(word + ' ').length
WordTokens(word) == TokenCount(word) + 1

\* tempChunk.join(' ') as a text of one paragraph
JoinWords(tempChunk) == << IF tempChunk = <<>> THEN <<"">> ELSE tempChunk >>

RECURSIVE SplitWordsDropping(_, _, _, _)
SplitWordsDropping(words, tempChunk, tempLength, maxTokens) ==
  IF words = <<>>
  THEN IF Len(tempChunk) > 0 THEN <<JoinWords(tempChunk)>> ELSE <<>>
  ELSE LET word == Head(words)
           wordTokens == WordTokens(word)
       IN IF tempLength + wordTokens <= maxTokens
          THEN SplitWordsDropping(Tail(words), Append(tempChunk, word),
                                  tempLength + wordTokens, maxTokens)
          ELSE <<JoinWords(tempChunk)>>
               \o SplitWordsDropping(Tail(words), <<>>, 0, maxTokens)

RECURSIVE SplitWords(_, _, _, _)
SplitWords(words, tempChunk, tempLength, maxTokens) ==
  IF words = <<>>
  THEN IF Len(tempChunk) > 0 THEN <<JoinWords(tempChunk)>> ELSE <<>>
  ELSE LET word == Head(words)
           wordTokens == WordTokens(word)
       IN IF tempLength + wordTokens <= maxTokens
          THEN SplitWords(Tail(words), Append(tempChunk, word),
                          tempLength + wordTokens, maxTokens)
          ELSE <<JoinWords(tempChunk)>>
               \o SplitWords(Tail(words), <<word>>, wordTokens, maxTokens)

RECURSIVE ChunkParagraphs(_, _, _, _, _)
ChunkParagraphs(paragraphs, chunks, currentChunk, currentLength, maxTokens) ==
  IF paragraphs = <<>>
  THEN IF Len(currentChunk) > 0 THEN Append(chunks, currentChunk) ELSE chunks
  ELSE LET paragraph == Head(paragraphs)
           paragraphTokens == ParagraphTokens(paragraph)
       IN IF currentLength + paragraphTokens <= maxTokens
          THEN ChunkParagraphs(Tail(paragraphs), chunks,
                               Append(currentChunk, paragraph),
                               currentLength + paragraphTokens, maxTokens)
          ELSE IF Len(currentChunk) > 0
               THEN ChunkParagraphs(Tail(paragraphs),
                                    Append(chunks, currentChunk),
                                    <<paragraph>>, paragraphTokens, maxTokens)
               ELSE ChunkParagraphs(Tail(paragraphs),
                                    chunks \o SplitWords(paragraph, <<>>, 0, maxTokens),
                                    currentChunk, currentLength, maxTokens)

chunkText(text, maxTokens) ==
  IF TextTokens(text) <= maxTokens
  THEN <<text>>
  ELSE ChunkParagraphs(text, <<>>, <<>>, 0, maxTokens)

\* A rendered page is its structured text plus markup that the conversion
\* drops (scripts, styles, layout): htmlToMarkdown keeps only the text.
htmlToMarkdown(html) == html.text

\* The vector the embedding service returns for a chunk
EmbeddingOf(chunk) == <<TextTokens(chunk), Len(chunk)>>

-----------------------------------------------------------------------------
(* The site being crawled *)

URLs == {"a/0", "a/1", "a/2", "a/3", "b/0"}

\* new URL(u).hostname
Hostname(u) == IF u = "b/0" THEN "b" ELSE "a"

TextHome  == << <<"w1", "w2">>, <<"w3">> >>
TextMore  == << <<"w1", "w2">>, <<"long">> >>
TextPlain == << <<"w1">> >>
TextTwo   == << <<"w2">> >>
TextOther == << <<"w3">>, <<"w1", "w2">> >>

Page(text) == [text |-> text, aux |-> 0]

\* effect of a click: "style" changes markup only, "reveal" shows new
\* text, "nav" is an SPA navigation to target; box: the bounding box is
\* not empty; detached: the calls on the element handle raise
Button(text, effect, reveal, target) ==
  [text |-> text, category |-> "buttons", selector |-> "button:visible",
   box |-> TRUE, detached |-> FALSE,
   effect |-> effect, reveal |-> reveal, target |-> target]
Expandable(text, effect, reveal, target) ==
  [text |-> text, category |-> "expandables", selector |-> ".expand:visible",
   box |-> TRUE, detached |-> FALSE,
   effect |-> effect, reveal |-> reveal, target |-> target]

Site ==
  [u \in URLs |->
     CASE u = "a/0" ->
            [html     |-> Page(TextHome),
             elements |-> << Button("Menu", "style", <<>>, ""),
                             Button("More", "reveal", TextMore, ""),
                             Expandable("Go", "nav", <<>>, "a/2") >>,
             hrefs    |-> << "#top", "a/1", "a/1", "b/0", "javascript:void(0)",
                             "a/0", "a/2", "a/1", "a/1", "a/1", "a/2", "a/1" >>]
       [] u = "a/1" ->
            [html     |-> Page(TextPlain),
             elements |-> << >>,
             hrefs    |-> << "a/0", "a/2" >>]
       [] u = "a/2" ->
            [html     |-> Page(TextTwo),
             elements |-> << Button("Home", "nav", <<>>, "a/3"),
                             Expandable("Open", "style", <<>>, "") >>,
             hrefs    |-> << "a/1", "a/0" >>]
       [] u = "a/3" ->
            \* another route of the application showing the text of a/2
            [html     |-> Page(TextTwo),
             elements |-> << >>,
             hrefs    |-> << "a/1" >>]
       [] OTHER ->
            [html     |-> Page(TextOther),
             elements |-> << >>,
             hrefs    |-> << "a/0" >>] ]

\* Root URL lists a caller crawls with one shared visited set
RootLists == { <<"a/0">>, <<"a/1", "a/0">>, <<"b/0", "a/2">> }

Depths == -1 .. MaxDepth

\* crawled_data.json as written by the crawl script: one item per URL
Item(url, title, content, success) ==
  [url |-> url, title |-> title, content |-> content, success |-> success]

DataFiles ==
  [first  |-> << Item("a/0", "Home", TextHome, TRUE),
                 Item("a/1", "", TextPlain, FALSE),
                 Item("a/2", "Two", <<>>, TRUE),
                 Item("b/0", "", TextOther, TRUE) >>,
   second |-> << Item("a/1", "", TextPlain, TRUE) >>]

\* What the caller does with one instance: one crawl call, or two crawl
\* calls one after the other, each with its own visited set; or, with an
\* adapter, one or two processCrawledData calls
Plans ==
  { <<[urls |-> rs, depth |-> d]>> : rs \in RootLists, d \in Depths }
  \cup { <<[urls |-> <<"a/1">>, depth |-> 0], [urls |-> <<"a/1", "a/0">>, depth |-> d]>> :
           d \in {0, 1} }
  \cup { <<[data |-> "first"]>>, <<[data |-> "second"], [data |-> "first"]>> }

-----------------------------------------------------------------------------
(* Helpers of crawlDynamicSite *)

GuardVisitedOnly(url, depth, visited) == url \in visited

GuardDepthOnly(url, depth, visited) == depth < 0

\* if (visitedUrls.has(url) || depth < 0) return;
Guard(url, depth, visited) == url \in visited \/ depth < 0

MarkVisitedForgotten(visited, url) == visited

\* visitedUrls.add(url)
MarkVisited(visited, url) == visited \cup {url}

\* interactiveSelectors, in iteration order: those that match elements of
\* the site
Selectors == << "button:visible", ".expand:visible" >>

\* for (const element of elements): the elements with a non-empty bounding
\* box are pushed, until a call on an element handle raises
RECURSIVE ScanMatches(_)
ScanMatches(matches) ==
  IF matches = <<>> THEN <<>>
  ELSE IF Head(matches).detached THEN <<>>
       ELSE (IF Head(matches).box THEN <<Head(matches)>> ELSE <<>>)
            \o ScanMatches(Tail(matches))

RECURSIVE ExploreOverAborting(_, _, _, _)
ExploreOverAborting(selectors, k, elements, failed) ==
  IF k > Len(selectors) THEN <<>>
  ELSE IF selectors[k] \in failed THEN <<>>
       ELSE ScanMatches(SelectSeq(elements, LAMBDA e : e.selector = selectors[k]))
            \o ExploreOverAborting(selectors, k + 1, elements, failed)

\* the two loops over the selectors, from the k-th selector on: page.$$
\* raises for the selectors in failed; what a selector pushed before an
\* error stays, and the scan goes on with the next selector
RECURSIVE ExploreOver(_, _, _, _)
ExploreOver(selectors, k, elements, failed) ==
  IF k > Len(selectors) THEN <<>>
  ELSE (IF selectors[k] \in failed
        THEN <<>>
        ELSE ScanMatches(SelectSeq(elements, LAMBDA e : e.selector = selectors[k])))
       \o ExploreOver(selectors, k + 1, elements, failed)

ExploreFrom(k, elements, failed) == ExploreOver(Selectors, k, elements, failed)

\* exploreInteractiveElements: a selector whose lookup raises contributes
\* nothing, the other selectors are still scanned
exploreInteractiveElements(elements, failed) == ExploreFrom(1, elements, failed)

\* the href kept by the $$eval callback: fragment-only and javascript:
\* links are discarded
KeepHref(href) == href \in URLs

SameDomainLinksAnyHost(links, url, visited) ==
  LET same == SelectSeq(links, LAMBDA l : l \notin visited)
  IN SubSeq(same, 1, IF Len(same) < LinkCap THEN Len(same) ELSE LinkCap)

\* links.filter(same hostname and not visited).slice(0, 5)
SameDomainLinks(links, url, visited) ==
  LET same == SelectSeq(links, LAMBDA l : Hostname(l) = Hostname(url)
                                          /\ l \notin visited)
  IN SubSeq(same, 1, IF Len(same) < LinkCap THEN Len(same) ELSE LinkCap)

\* depth passed to the recursive invocation
ChildDepth(depth) == depth - 1

\* the page after a successful click on element e
Clicked(f, e) ==
  CASE e.effect = "style"  -> [f EXCEPT !.html.aux = 1 - @]
    [] e.effect = "reveal" -> [f EXCEPT !.html.text = e.reveal]
    [] OTHER               -> [f EXCEPT !.pageUrl = e.target,
                                         !.html = Site[e.target].html]

NewFrame(url, depth) ==
  [url |-> url, depth |-> depth, pc |-> "guard", id |-> 0, ctx |-> 0,
   pageUrl |-> "", html |-> Page(<<>>), markdown |-> <<>>,
   documentChunks |-> <<>>, ci |-> 0, embedding |-> <<>>, phase |-> "",
   interactiveElements |-> <<>>, ei |-> 0, interactionsCount |-> 0,
   newUrl |-> "", contentChanged |-> FALSE,
   sameDomainLinks |-> <<>>, li |-> 0,
   \* history of the invocation
   failure |-> "", last |-> "", calls |-> 0, embFailed |-> FALSE,
   docStart |-> 0, docEnd |-> -1, visAtEntry |-> {}, visAtFilter |-> {},
   clicked |-> {}, navigated |-> {}, capStart |-> 0, embedded |-> <<>>]

\* the document and the vector entry pushed for the current chunk
DocUrl(f) == IF f.phase = "initial" THEN f.url ELSE f.newUrl

CurrentElement(f) == f.interactiveElements[f.ei]

DocSource(f) ==
  IF f.phase = "initial" THEN <<"initial">>
  ELSE <<"interaction", CurrentElement(f).category, CurrentElement(f).text>>

VectorEntryOldUrl(f) == [url |-> f.url, embedding |-> f.embedding]

VectorEntry(f) == [url |-> DocUrl(f), embedding |-> f.embedding]

Document(f) ==
  [url |-> DocUrl(f), title |-> DocUrl(f),
   content |-> f.documentChunks[f.ci], source |-> DocSource(f)]

AfterLoopAlwaysLinks(f) == [f EXCEPT !.pc = "links"]

\* after the interaction loop: if (depth > 0) follow links, else leave the try
AfterLoop(f) ==
  IF f.depth > 0 THEN [f EXCEPT !.pc = "links"] ELSE [f EXCEPT !.pc = "finally"]

\* head of for (... of interactiveElements), with the maxInteractions break
LoopHead(f, maxInteractions) ==
  IF f.ei > Len(f.interactiveElements) \/ f.interactionsCount >= maxInteractions
  THEN AfterLoop(f)
  ELSE [f EXCEPT !.pc = "scroll"]

NextElementStuck(f) == f

\* the for..of iterator advances to the next discovered element
NextElement(f) == [f EXCEPT !.ei = @ + 1]

\* continue; (content unchanged): next element, interactionsCount untouched
SkipUnchanged(f, maxInteractions) ==
  LoopHead(NextElement([f EXCEPT !.last = "unchanged"]), maxInteractions)

ElementFailedAborts(f, maxInteractions) ==
  [f EXCEPT !.pc = "finally", !.failure = "element", !.last = "failed"]

\* inner catch: the element is skipped, interactionsCount untouched
ElementFailed(f, maxInteractions) ==
  LoopHead(NextElement([f EXCEPT !.last = "failed"]), maxInteractions)

\* interactionsCount++ at the end of the try body
ElementDone(f, maxInteractions) ==
  LoopHead(NextElement([f EXCEPT !.last = "stored",
                                 !.interactionsCount = @ + 1]), maxInteractions)

\* the chunk loop is over
AfterChunks(f, maxInteractions) ==
  IF f.phase = "initial" THEN [f EXCEPT !.pc = "explore"]
  ELSE IF f.contentChanged /\ f.depth > 0 THEN [f EXCEPT !.pc = "goBack"]
  ELSE ElementDone(f, maxInteractions)

\* head of for (const chunk of documentChunks)
ChunkHead(f, maxInteractions) ==
  IF f.ci > Len(f.documentChunks)
  THEN AfterChunks(f, maxInteractions)
  ELSE [f EXCEPT !.pc = "embed"]

NextChunk(f) == [f EXCEPT !.ci = @ + 1, !.embedding = <<>>]

EmbeddingFailedBreak(f) ==
  [f EXCEPT !.embFailed = TRUE, !.ci = Len(f.documentChunks) + 1,
            !.embedding = <<>>]

\* createEmbedding returned null: if (embedding) is false, the chunk is
\* skipped and the chunk loop goes on
EmbeddingFailed(f) == NextChunk([f EXCEPT !.embFailed = TRUE])

\* visitedUrls after the chunk loop of an interaction: the new URL is
\* recorded when the click navigated and depth > 0
VisitedAfterChunks(f, visited) ==
  IF f.ci > Len(f.documentChunks) /\ f.phase = "interaction"
     /\ f.contentChanged /\ f.depth > 0
  THEN MarkVisited(visited, f.newUrl)
  ELSE visited

\* history: the URLs invocation f.id added to visitedUrls after a click
LogAdded(f, visited) ==
  IF VisitedAfterChunks(f, visited) = visited THEN invLog
  ELSE [invLog EXCEPT ![f.id].added = @ \cup {f.newUrl}]

FollowHeadRecapture(f) ==
  IF f.li > Len(f.sameDomainLinks)
  THEN [f EXCEPT !.pc = "capture"]
  ELSE [f EXCEPT !.pc = "call"]

\* head of for (const link of sameDomainLinks)
FollowHead(f) ==
  IF f.li > Len(f.sameDomainLinks)
  THEN [f EXCEPT !.pc = "finally"]
  ELSE [f EXCEPT !.pc = "call"]

NextLinkBreak(f) == [f EXCEPT !.li = Len(f.sameDomainLinks) + 1]

NextLink(f) == [f EXCEPT !.li = @ + 1]

\* outer catch: log and fall into finally
Caught(f, what) == [f EXCEPT !.pc = "finally", !.failure = what]

-----------------------------------------------------------------------------
(* Helpers of Crawl4AIRagAdapter.processCrawledData *)

PushEntryFront(store, entry) == <<entry>> \o store

\* store.push(entry), for this.vectorStore and this.documents
PushEntry(store, entry) == Append(store, entry)

\* constructor: this.documents = []; this.vectorStore = []
NewAdapter ==
  [pc |-> "idle", documents |-> <<>>, vectorStore |-> <<>>,
   crawledData |-> <<>>, ii |-> 0, chunks |-> <<>>, ci |-> 0,
   \* history of the calls
   calls |-> 0, outcome |-> "none", docsAtCall |-> 0, embFailed |-> FALSE]

ItemSkippedEmptyOnly(item) == item.content = <<>>

\* if (!item.success || !item.content) continue;
ItemSkipped(item) == ~item.success \/ item.content = <<>>

\* head of for (const item of crawledData): the next item that is
\* processed is chunked and its first chunk awaits its embedding; after
\* the last item the call returns
RECURSIVE ItemHead(_, _)
ItemHead(a, maxTokens) ==
  IF a.ii > Len(a.crawledData)
  THEN [a EXCEPT !.pc = "idle", !.outcome = "returned"]
  ELSE IF ItemSkipped(a.crawledData[a.ii])
       THEN ItemHead([a EXCEPT !.ii = @ + 1], maxTokens)
       ELSE LET chunks == chunkText(a.crawledData[a.ii].content, maxTokens)
            IN IF chunks = <<>>
               THEN ItemHead([a EXCEPT !.ii = @ + 1], maxTokens)
               ELSE [a EXCEPT !.chunks = chunks, !.ci = 1, !.pc = "embed"]

\* for (const [index, chunk] of chunks.entries()): next chunk, or next item
AdapterNextChunk(a, maxTokens) ==
  IF a.ci < Len(a.chunks)
  THEN [a EXCEPT !.ci = @ + 1]
  ELSE ItemHead([a EXCEPT !.ii = @ + 1], maxTokens)

AdapterVectorEntry(a) ==
  [url |-> a.crawledData[a.ii].url, embedding |-> EmbeddingOf(a.chunks[a.ci])]

\* chunkIndex is the 0-based index of chunks.entries()
AdapterDocument(a) ==
  LET item == a.crawledData[a.ii]
  IN [url |-> item.url,
      title |-> IF item.title = "" THEN item.url ELSE item.title,
      content |-> a.chunks[a.ci], chunkIndex |-> a.ci - 1, source |-> "crawl4ai"]

-----------------------------------------------------------------------------
(* Call stack *)

Top == stack[Len(stack)]

SetTop(f) == [stack EXCEPT ![Len(stack)] = f]

Callers == SubSeq(stack, 1, Len(stack) - 1)

\* the invocation on top returns normally: its caller goes on with the
\* next link
Returned ==
  IF Len(stack) = 1 THEN <<>>
  ELSE [Callers EXCEPT ![Len(stack) - 1] = FollowHead(NextLink(@))]

\* the invocation on top raises: the exception lands in its caller's catch
Raised ==
  IF Len(stack) = 1 THEN <<>>
  ELSE [Callers EXCEPT ![Len(stack) - 1] = Caught(@, "child")]

CanFail == faults < MaxFaults

Fail == faults' = faults + 1

LogStatus(f, status) ==
  IF f.id = 0 THEN invLog
  ELSE [invLog EXCEPT ![f.id].status = status, ![f.id].failure = f.failure]

-----------------------------------------------------------------------------
(* Initial state: a fresh DynamicWebsiteRAG (constructor) *)

\* no query has been asked
NoSearch == [pc |-> "none"]

\* a component on which no call is made
Idle == [pc |-> "none"]

Init ==
  /\ pageBrowser = FALSE
  /\ vectorStore = <<>>
  /\ documents = <<>>
  /\ interactiveElementsMap = [u \in {} |-> <<>>]
  /\ visitedUrls = {}
  /\ stack = <<>>
  /\ contexts = <<>>
  /\ options \in [maxInteractions : {1, 2}, maxTokens : {3}]
  /\ roots = <<>>
  /\ rootDepth = 0
  /\ outcome = "none"
  /\ plan \in Plans
  /\ sessions = 0
  /\ faults = 0
  /\ invLog = <<>>
  /\ docInv = <<>>
  /\ gotoCount = [u \in URLs |-> 0]
  /\ adapter = NewAdapter
  /\ search = NoSearch
  /\ chunker = Idle
  /\ kb = Idle
  /\ explorer = Idle
  /\ cache = Idle
  /\ graph = Idle

-----------------------------------------------------------------------------
(* The caller *)

\* const visitedUrls = new Set(); for (const url of urls) await crawl(...)
StartCrawl ==
  /\ stack = <<>>
  /\ roots = <<>>
  /\ plan # <<>>
  /\ "urls" \in DOMAIN Head(plan)
  /\ roots' = Head(plan).urls
  /\ rootDepth' = Head(plan).depth
  /\ plan' = Tail(plan)
  /\ visitedUrls' = {}
  /\ gotoCount' = [u \in URLs |-> 0]
  /\ sessions' = sessions + 1
  /\ outcome' = "none"
  /\ UNCHANGED <<pageBrowser, vectorStore, documents, interactiveElementsMap,
                 stack, contexts, options, faults, invLog, docInv>>
  /\ UNCHANGED <<adapter, search, chunker, kb, explorer, cache, graph>>

\* await crawlDynamicSite(url, depth, visitedUrls) for the next root URL
CallRoot ==
  /\ stack = <<>>
  /\ roots # <<>>
  /\ stack' = <<NewFrame(Head(roots), rootDepth)>>
  /\ roots' = Tail(roots)
  /\ outcome' = "running"
  /\ UNCHANGED <<pageBrowser, vectorStore, documents, interactiveElementsMap,
                 visitedUrls, contexts, options, rootDepth, plan, sessions, faults,
                 invLog, docInv, gotoCount>>
  /\ UNCHANGED <<adapter, search, chunker, kb, explorer, cache, graph>>

\* bookkeeping of a frame leaving the stack
Leave(how) ==
  /\ outcome' = IF Len(stack) = 1 THEN how ELSE outcome
  /\ roots' = IF Len(stack) = 1 /\ how = "raised" THEN <<>> ELSE roots

-----------------------------------------------------------------------------
(* crawlDynamicSite, one step per await *)

\* lines 317-326: guard, mark visited, decide whether to launch
Enter ==
  /\ stack # <<>>
  /\ Top.pc = "guard"
  /\ IF Guard(Top.url, Top.depth, visitedUrls)
     THEN /\ stack' = Returned
          /\ Leave("noop")
          /\ UNCHANGED <<visitedUrls, invLog>>
     ELSE /\ visitedUrls' = MarkVisited(visitedUrls, Top.url)
          /\ invLog' = Append(invLog,
                 [url |-> Top.url, depth |-> Top.depth,
                  parent |-> IF Len(stack) = 1 THEN 0 ELSE stack[Len(stack) - 1].id,
                  session |-> sessions, status |-> "running", failure |-> "",
                  added |-> {}])
          /\ stack' = SetTop([Top EXCEPT
                 !.id = Len(invLog) + 1,
                 !.pc = IF pageBrowser THEN "newContext" ELSE "initialize",
                 !.docStart = Len(documents),
                 !.visAtEntry = visitedUrls])
          /\ UNCHANGED <<outcome, roots>>
  /\ UNCHANGED <<pageBrowser, vectorStore, documents, interactiveElementsMap,
                 contexts, options, rootDepth, plan, sessions, faults, docInv,
                 gotoCount>>
  /\ UNCHANGED <<adapter, search, chunker, kb, explorer, cache, graph>>

\* the invocation raises before its try block is entered
RaiseOut ==
  /\ CanFail /\ Fail
  /\ stack' = Raised
  /\ invLog' = LogStatus(Top, "raised")
  /\ Leave("raised")

\* await this.initialize()
Initialize ==
  /\ stack # <<>>
  /\ Top.pc = "initialize"
  /\ \/ /\ pageBrowser' = TRUE
        /\ stack' = SetTop([Top EXCEPT !.pc = "newContext"])
        /\ UNCHANGED <<faults, invLog, outcome, roots>>
     \/ /\ RaiseOut
        /\ UNCHANGED pageBrowser
  /\ UNCHANGED <<vectorStore, documents, interactiveElementsMap, visitedUrls,
                 contexts, options, rootDepth, plan, sessions, docInv, gotoCount>>
  /\ UNCHANGED <<adapter, search, chunker, kb, explorer, cache, graph>>

\* const context = await this.pageBrowser.newContext(...)
NewContext ==
  /\ stack # <<>>
  /\ Top.pc = "newContext"
  /\ \/ /\ contexts' = Append(contexts, [owner |-> Top.id, open |-> TRUE])
        /\ stack' = SetTop([Top EXCEPT !.pc = "newPage",
                                       !.ctx = Len(contexts) + 1])
        /\ UNCHANGED <<faults, invLog, outcome, roots>>
     \/ /\ RaiseOut
        /\ UNCHANGED contexts
  /\ UNCHANGED <<pageBrowser, vectorStore, documents, interactiveElementsMap,
                 visitedUrls, options, rootDepth, plan, sessions, docInv, gotoCount>>
  /\ UNCHANGED <<adapter, search, chunker, kb, explorer, cache, graph>>

\* const page = await context.newPage(); page.setDefaultTimeout(30000)
NewPage ==
  /\ stack # <<>>
  /\ Top.pc = "newPage"
  /\ \/ /\ stack' = SetTop([Top EXCEPT !.pc = "goto"])
        /\ UNCHANGED <<faults, invLog, outcome, roots>>
     \/ RaiseOut
  /\ UNCHANGED <<pageBrowser, vectorStore, documents, interactiveElementsMap,
                 visitedUrls, contexts, options, rootDepth, plan, sessions, docInv,
                 gotoCount>>
  /\ UNCHANGED <<adapter, search, chunker, kb, explorer, cache, graph>>

\* await page.goto(url, ...)
Goto ==
  /\ stack # <<>>
  /\ Top.pc = "goto"
  /\ gotoCount' = [gotoCount EXCEPT ![Top.url] = @ + 1]
  /\ \/ /\ stack' = SetTop([Top EXCEPT !.pc = "capture",
                                       !.pageUrl = Top.url,
                                       !.html = Site[Top.url].html])
        /\ UNCHANGED faults
     \/ /\ CanFail /\ Fail
        /\ stack' = SetTop(Caught(Top, "goto"))
  /\ UNCHANGED <<pageBrowser, vectorStore, documents, interactiveElementsMap,
                 visitedUrls, contexts, options, roots, rootDepth, outcome,
                 plan, sessions, invLog, docInv>>
  /\ UNCHANGED <<adapter, search, chunker, kb, explorer, cache, graph>>

\* html = await captureAfterJSExecution(page, url); markdown; chunkText
Capture ==
  /\ stack # <<>>
  /\ Top.pc = "capture"
  /\ \/ /\ LET markdown == htmlToMarkdown(Top.html)
           IN stack' = SetTop(ChunkHead(
                  [Top EXCEPT !.markdown = markdown,
                              !.documentChunks = chunkText(markdown, options.maxTokens),
                              !.ci = 1,
                              !.phase = "initial",
                              !.capStart = Len(documents),
                              !.embedded = <<>>],
                  options.maxInteractions))
        /\ UNCHANGED faults
     \/ /\ CanFail /\ Fail
        /\ stack' = SetTop(Caught(Top, "capture"))
  /\ UNCHANGED <<pageBrowser, vectorStore, documents, interactiveElementsMap,
                 visitedUrls, contexts, options, roots, rootDepth, outcome,
                 plan, sessions, invLog, docInv, gotoCount>>
  /\ UNCHANGED <<adapter, search, chunker, kb, explorer, cache, graph>>

\* const embedding = await this.createEmbedding(chunk): a vector, or null
\* when the service call fails (the chunk is skipped)
Embed ==
  /\ stack # <<>>
  /\ Top.pc = "embed"
  /\ \/ /\ stack' = SetTop([Top EXCEPT
                 !.pc = "push",
                 !.embedding = EmbeddingOf(Top.documentChunks[Top.ci]),
                 !.embedded = Append(@, Top.ci)])
        /\ UNCHANGED <<faults, visitedUrls, invLog>>
     \/ /\ CanFail /\ Fail
        /\ LET f == EmbeddingFailed(Top)
           IN /\ stack' = SetTop(ChunkHead(f, options.maxInteractions))
              /\ visitedUrls' = VisitedAfterChunks(f, visitedUrls)
              /\ invLog' = LogAdded(f, visitedUrls)
  /\ UNCHANGED <<pageBrowser, vectorStore, documents, interactiveElementsMap,
                 contexts, options, roots, rootDepth, outcome, plan, sessions,
                 docInv, gotoCount>>
  /\ UNCHANGED <<adapter, search, chunker, kb, explorer, cache, graph>>

\* if (embedding) { this.vectorStore.push(...); this.documents.push(...) }
Push ==
  /\ stack # <<>>
  /\ Top.pc = "push"
  /\ vectorStore' = PushEntry(vectorStore, VectorEntry(Top))
  /\ documents' = PushEntry(documents, Document(Top))
  /\ docInv' = Append(docInv, Top.id)
  /\ LET f == NextChunk(Top)
     IN /\ stack' = SetTop(ChunkHead(f, options.maxInteractions))
        /\ visitedUrls' = VisitedAfterChunks(f, visitedUrls)
        /\ invLog' = LogAdded(f, visitedUrls)
  /\ UNCHANGED <<pageBrowser, interactiveElementsMap, contexts, options, roots,
                 rootDepth, outcome, plan, sessions, faults, gotoCount>>
  /\ UNCHANGED <<adapter, search, chunker, kb, explorer, cache, graph>>

\* interactiveElements = await exploreInteractiveElements(page);
\* interactiveElementsMap.set(url, interactiveElements)
Explore ==
  /\ stack # <<>>
  /\ Top.pc = "explore"
  /\ \E failed \in {{}} \cup {{Selectors[k]} : k \in 1 .. Len(Selectors)} :
       /\ IF failed = {} THEN UNCHANGED faults ELSE CanFail /\ Fail
       /\ LET found == exploreInteractiveElements(Site[Top.pageUrl].elements, failed)
          IN /\ interactiveElementsMap' =
                  [u \in DOMAIN interactiveElementsMap \cup {Top.url} |->
                     IF u = Top.url THEN found ELSE interactiveElementsMap[u]]
             /\ stack' = SetTop(LoopHead(
                  [Top EXCEPT !.interactiveElements = found,
                              !.interactionsCount = 0,
                              !.ei = 1],
                  options.maxInteractions))
  /\ UNCHANGED <<pageBrowser, vectorStore, documents, visitedUrls, contexts,
                 options, roots, rootDepth, outcome, plan, sessions, invLog, docInv,
                 gotoCount>>
  /\ UNCHANGED <<adapter, search, chunker, kb, explorer, cache, graph>>

\* await element.scrollIntoViewIfNeeded(); await page.waitForTimeout(300)
Scroll ==
  /\ stack # <<>>
  /\ Top.pc = "scroll"
  /\ \/ /\ stack' = SetTop([Top EXCEPT !.pc = "click"])
        /\ UNCHANGED faults
     \/ /\ CanFail /\ Fail
        /\ stack' = SetTop(ElementFailed(Top, options.maxInteractions))
  /\ UNCHANGED <<pageBrowser, vectorStore, documents, interactiveElementsMap,
                 visitedUrls, contexts, options, roots, rootDepth, outcome,
                 plan, sessions, invLog, docInv, gotoCount>>
  /\ UNCHANGED <<adapter, search, chunker, kb, explorer, cache, graph>>

\* await element.click(); await page.waitForTimeout(interactionDelay);
\* newUrl = page.url(); contentChanged = newUrl !== url
Click ==
  /\ stack # <<>>
  /\ Top.pc = "click"
  /\ \/ /\ LET f == Clicked(Top, CurrentElement(Top))
           IN stack' = SetTop([f EXCEPT
                  !.pc = "recapture",
                  !.newUrl = f.pageUrl,
                  !.contentChanged = (f.pageUrl # f.url),
                  !.clicked = @ \cup {f.ei},
                  !.navigated = IF f.pageUrl # f.url THEN @ \cup {f.pageUrl} ELSE @])
        /\ UNCHANGED faults
     \/ /\ CanFail /\ Fail
        /\ stack' = SetTop(ElementFailed(Top, options.maxInteractions))
  /\ UNCHANGED <<pageBrowser, vectorStore, documents, interactiveElementsMap,
                 visitedUrls, contexts, options, roots, rootDepth, outcome,
                 plan, sessions, invLog, docInv, gotoCount>>
  /\ UNCHANGED <<adapter, search, chunker, kb, explorer, cache, graph>>

\* newHtml = await captureAfterJSExecution(page, newUrl); newMarkdown;
\* if (newMarkdown === markdown) continue; otherwise chunk the new text
Recapture ==
  /\ stack # <<>>
  /\ Top.pc = "recapture"
  /\ \/ /\ LET newMarkdown == htmlToMarkdown(Top.html)
           IN stack' = SetTop(
                IF newMarkdown = Top.markdown
                THEN SkipUnchanged(Top, options.maxInteractions)
                ELSE ChunkHead(
                       [Top EXCEPT !.markdown = newMarkdown,
                                   !.documentChunks = chunkText(newMarkdown, options.maxTokens),
                                   !.ci = 1,
                                   !.phase = "interaction",
                                   !.capStart = Len(documents),
                                   !.embedded = <<>>],
                       options.maxInteractions))
        /\ UNCHANGED faults
     \/ /\ CanFail /\ Fail
        /\ stack' = SetTop(ElementFailed(Top, options.maxInteractions))
  /\ UNCHANGED <<pageBrowser, vectorStore, documents, interactiveElementsMap,
                 visitedUrls, contexts, options, roots, rootDepth, outcome,
                 plan, sessions, invLog, docInv, gotoCount>>
  /\ UNCHANGED <<adapter, search, chunker, kb, explorer, cache, graph>>

\* await page.goBack()
GoBack ==
  /\ stack # <<>>
  /\ Top.pc = "goBack"
  /\ \/ /\ stack' = SetTop([Top EXCEPT !.pc = "settle",
                                       !.pageUrl = Top.url,
                                       !.html = Site[Top.url].html])
        /\ UNCHANGED faults
     \/ /\ CanFail /\ Fail
        /\ stack' = SetTop(ElementFailed(Top, options.maxInteractions))
  /\ UNCHANGED <<pageBrowser, vectorStore, documents, interactiveElementsMap,
                 visitedUrls, contexts, options, roots, rootDepth, outcome,
                 plan, sessions, invLog, docInv, gotoCount>>
  /\ UNCHANGED <<adapter, search, chunker, kb, explorer, cache, graph>>

\* await this.captureAfterJSExecution(page, url); interactionsCount++
Settle ==
  /\ stack # <<>>
  /\ Top.pc = "settle"
  /\ \/ /\ stack' = SetTop(ElementDone(Top, options.maxInteractions))
        /\ UNCHANGED faults
     \/ /\ CanFail /\ Fail
        /\ stack' = SetTop(ElementFailed(Top, options.maxInteractions))
  /\ UNCHANGED <<pageBrowser, vectorStore, documents, interactiveElementsMap,
                 visitedUrls, contexts, options, roots, rootDepth, outcome,
                 plan, sessions, invLog, docInv, gotoCount>>
  /\ UNCHANGED <<adapter, search, chunker, kb, explorer, cache, graph>>

\* links = await page.$$eval('a[href]', ...); sameDomainLinks = filter, slice
ExtractLinks ==
  /\ stack # <<>>
  /\ Top.pc = "links"
  /\ \/ /\ LET links == SelectSeq(Site[Top.pageUrl].hrefs, KeepHref)
           IN stack' = SetTop(FollowHead(
                  [Top EXCEPT !.sameDomainLinks =
                                 SameDomainLinks(links, Top.url, visitedUrls),
                              !.li = 1,
                              !.docEnd = Len(documents),
                              !.visAtFilter = visitedUrls]))
        /\ UNCHANGED faults
     \/ /\ CanFail /\ Fail
        /\ stack' = SetTop(Caught(Top, "links"))
  /\ UNCHANGED <<pageBrowser, vectorStore, documents, interactiveElementsMap,
                 visitedUrls, contexts, options, roots, rootDepth, outcome,
                 plan, sessions, invLog, docInv, gotoCount>>
  /\ UNCHANGED <<adapter, search, chunker, kb, explorer, cache, graph>>

\* await this.crawlDynamicSite(link, depth - 1, visitedUrls)
Recurse ==
  /\ stack # <<>>
  /\ Top.pc = "call"
  /\ stack' = Append(SetTop([Top EXCEPT !.pc = "await", !.calls = @ + 1]),
                     NewFrame(Top.sameDomainLinks[Top.li], ChildDepth(Top.depth)))
  /\ UNCHANGED <<pageBrowser, vectorStore, documents, interactiveElementsMap,
                 visitedUrls, contexts, options, roots, rootDepth, outcome,
                 plan, sessions, faults, invLog, docInv, gotoCount>>
  /\ UNCHANGED <<adapter, search, chunker, kb, explorer, cache, graph>>

\* finally { await context.close(); } and the invocation returns.  Closing
\* is the release primitive itself: it is taken to succeed.
Finally ==
  /\ stack # <<>>
  /\ Top.pc = "finally"
  /\ contexts' = [contexts EXCEPT ![Top.ctx].open = FALSE]
  /\ stack' = Returned
  /\ invLog' = LogStatus(Top, "returned")
  /\ Leave("returned")
  /\ UNCHANGED <<pageBrowser, vectorStore, documents, interactiveElementsMap,
                 visitedUrls, options, rootDepth, plan, sessions, faults, docInv,
                 gotoCount>>
  /\ UNCHANGED <<adapter, search, chunker, kb, explorer, cache, graph>>

-----------------------------------------------------------------------------
(* Crawl4AIRagAdapter.processCrawledData, one step per await *)

\* the call reads and parses the data file (either may raise: the error is
\* logged and rethrown) and runs to its first createEmbedding await
ProcessCrawledData ==
  /\ stack = <<>>
  /\ roots = <<>>
  /\ adapter.pc = "idle"
  /\ plan # <<>>
  /\ "data" \in DOMAIN Head(plan)
  /\ plan' = Tail(plan)
  /\ \/ /\ adapter' = ItemHead([adapter EXCEPT
                                   !.crawledData = DataFiles[Head(plan).data],
                                   !.ii = 1,
                                   !.calls = @ + 1,
                                   !.outcome = "running",
                                   !.docsAtCall = Len(adapter.documents)],
                                options.maxTokens)
        /\ UNCHANGED faults
     \/ /\ CanFail /\ Fail
        /\ adapter' = [adapter EXCEPT !.calls = @ + 1, !.outcome = "raised"]
  /\ UNCHANGED <<pageBrowser, vectorStore, documents, interactiveElementsMap,
                 visitedUrls, stack, contexts, options, roots, rootDepth,
                 outcome, sessions, invLog, docInv, gotoCount, search,
                 chunker, kb, explorer, cache, graph>>

\* const embedding = await this.createEmbedding(chunk);
\* if (embedding) { this.vectorStore.push(...); this.documents.push(...) }
ProcessEmbedding ==
  /\ adapter.pc = "embed"
  /\ \/ /\ adapter' = AdapterNextChunk(
                 [adapter EXCEPT
                    !.vectorStore = PushEntry(@, AdapterVectorEntry(adapter)),
                    !.documents = PushEntry(@, AdapterDocument(adapter))],
                 options.maxTokens)
        /\ UNCHANGED faults
     \/ /\ CanFail /\ Fail
        /\ adapter' = AdapterNextChunk([adapter EXCEPT !.embFailed = TRUE],
                                       options.maxTokens)
  /\ UNCHANGED <<pageBrowser, vectorStore, documents, interactiveElementsMap,
                 visitedUrls, stack, contexts, options, roots, rootDepth,
                 outcome, plan, sessions, invLog, docInv, gotoCount, search,
                 chunker, kb, explorer, cache, graph>>

Next ==
  \/ StartCrawl
  \/ CallRoot
  \/ Enter
  \/ Initialize
  \/ NewContext
  \/ NewPage
  \/ Goto
  \/ Capture
  \/ Embed
  \/ Push
  \/ Explore
  \/ Scroll
  \/ Click
  \/ Recapture
  \/ GoBack
  \/ Settle
  \/ ExtractLinks
  \/ Recurse
  \/ Finally
  \/ ProcessCrawledData
  \/ ProcessEmbedding

Spec == Init /\ [][Next]_vars

\* Every await completes in finite time: the invocation on top of the stack
\* always gets its next step
FairSpec == Spec /\ WF_vars(Next)

-----------------------------------------------------------------------------
(* Retrieval: BM25Ranker.search, semanticSearch, hybridSearch *)

MaxTopK == 2

\* doc.content.substring(0, 50)
PrefixLen == 50

\* this.hybridSearch(query, 3) in generateResponse
GenerateTopK == 3

\* this.rankWithBM25(allDocuments, query, 10) in processQuery
RankTopK == 10

\* ranker.search(state.query, 5) in filter_documents
FilterTopK == 5

\* arr.slice(0, n)
Slice(arr, n) == SubSeq(arr, 1, IF Len(arr) < n THEN Len(arr) ELSE n)

\* str.substring(0, n): a url or a content is the sequence of its characters
Substring(str, n) == SubSeq(str, 1, IF Len(str) < n THEN Len(str) ELSE n)

CompareAscending(kind, a, b) ==
  IF kind = "fusion" /\ a.inBoth # b.inBoth
  THEN (IF a.inBoth THEN -1 ELSE 1)
  ELSE a.score - b.score

\* 0 / 0 in floating point: the value NaN, kept apart from every quotient
\* of the model (which lie in -100 .. 100) and from every BM25 score
NaN == -1000

\* x - y in floating point: NaN as soon as one operand is NaN
Minus(x, y) == IF x = NaN \/ y = NaN THEN NaN ELSE x - y

\* v < 0 as Array.prototype.sort reads the comparator's value: false for NaN
Negative(v) == v # NaN /\ v < 0

\* the comparators passed to sort: (a, b) => b.score - a.score, and the one
\* of hybridSearch that puts the items found by both searches first
Compare(kind, a, b) ==
  IF kind = "fusion" /\ a.inBoth # b.inBoth
  THEN (IF a.inBoth THEN -1 ELSE 1)
  ELSE Minus(b.score, a.score)

\* Array.prototype.sort is stable: x, which followed the items of sorted in
\* the array, goes before the first item it must precede
RECURSIVE InsertSorted(_, _, _)
InsertSorted(kind, x, sorted) ==
  IF sorted = <<>> THEN <<x>>
  ELSE IF Negative(Compare(kind, x, Head(sorted)))
       THEN <<x>> \o sorted
       ELSE <<Head(sorted)>> \o InsertSorted(kind, x, Tail(sorted))

RECURSIVE Sort(_, _)
Sort(kind, arr) ==
  IF arr = <<>> THEN <<>>
  ELSE InsertSorted(kind, arr[Len(arr)], Sort(kind, SubSeq(arr, 1, Len(arr) - 1)))

\* fieldWeights of every BM25Ranker the program builds
FieldWeights == [title |-> 2, content |-> 1]

\* score += fieldScore * this.fieldWeights[field], over the fields
TotalScore(fieldScore) ==
  fieldScore.title * FieldWeights.title + fieldScore.content * FieldWeights.content

BM25SearchSliceFirst(fieldScores, topK) ==
  LET scores == [idx \in 1 .. Len(fieldScores) |->
                   [doc |-> idx, score |-> TotalScore(fieldScores[idx])]]
      top == SelectSeq(Sort("score", Slice(scores, topK)),
                       LAMBDA item : item.score > 0)
  IN [i \in 1 .. Len(top) |-> top[i].doc]

\* BM25Ranker.search(query, topK): fieldScores[idx] holds what the BM25
\* models of the fields return for the query and document idx; the result
\* lists the documents by their index in this.documents
BM25Search(fieldScores, topK) ==
  LET scores == [idx \in 1 .. Len(fieldScores) |->
                   [doc |-> idx, score |-> TotalScore(fieldScores[idx])]]
      top == SelectSeq(Slice(Sort("score", scores), topK),
                       LAMBDA item : item.score > 0)
  IN [i \in 1 .. Len(top) |-> top[i].doc]

RECURSIVE DotFrom(_, _, _)
DotFrom(i, vecA, vecB) ==
  IF i > Len(vecA) THEN 0
  ELSE vecA[i] * vecB[i] + DotFrom(i + 1, vecA, vecB)

\* vecA.reduce((sum, a, i) => sum + a * vecB[i], 0)
Dot(vecA, vecB) == DotFrom(1, vecA, vecB)

\* Math.sqrt, on the squares the vectors of the model give
Sqrt(n) == CHOOSE r \in 0 .. n : r * r = n

\* dotProduct / (magA * magB), in hundredths (exact for the vectors of the
\* model, whose magnitudes are 0, 1 and 5).  With a zero vector the dot
\* product and the product of the magnitudes are both 0, and 0 / 0 is NaN.
cosineSimilarity(vecA, vecB) ==
  LET dotProduct == Dot(vecA, vecB)
      magA == Sqrt(Dot(vecA, vecA))
      magB == Sqrt(Dot(vecB, vecB))
  IN IF magA * magB = 0 THEN NaN ELSE (dotProduct * 100) \div (magA * magB)

\* this.vectorStore.map((item, idx) => ({ index: idx, score: ... }))
Similarities(queryEmbedding, store) ==
  [idx \in 1 .. Len(store) |->
     [index |-> idx,
      score |-> cosineSimilarity(queryEmbedding, store[idx].embedding)]]

\* semanticSearch after createEmbedding: << >> stands for null.  The result
\* lists the positions item.index that semanticSearch looks up in
\* this.documents.
SemanticRanking(queryEmbedding, store, topK) ==
  IF queryEmbedding = <<>> THEN <<>>
  ELSE LET top == Slice(Sort("score", Similarities(queryEmbedding, store)), topK)
       IN [i \in 1 .. Len(top) |-> top[i].index]

KeyUrlOnly(doc) == doc.url

\* doc.url + doc.content.substring(0, 50)
Key(doc) == doc.url \o Substring(doc.content, PrefixLen)

\* position of key in the Map (insertion order), 0 when absent
KeyIndex(entries, key) ==
  IF \E i \in 1 .. Len(entries) : entries[i].key = key
  THEN CHOOSE i \in 1 .. Len(entries) : entries[i].key = key
  ELSE 0

\* combinedResults.set(key, value): an existing key keeps its position
MapSet(entries, value) ==
  IF KeyIndex(entries, value.key) = 0
  THEN Append(entries, value)
  ELSE [entries EXCEPT ![KeyIndex(entries, value.key)] = value]

\* semanticResults.forEach: score 1.0; scores are counted in halves
RECURSIVE AddSemantic(_, _, _)
AddSemantic(entries, results, docs) ==
  IF results = <<>> THEN entries
  ELSE AddSemantic(MapSet(entries, [key |-> Key(docs[Head(results)]),
                                    doc |-> Head(results),
                                    score |-> 2, inBoth |-> FALSE]),
                   Tail(results), docs)

\* bm25Results.forEach: +1.0 and inBoth on an existing key, else score 0.5
RECURSIVE AddLexical(_, _, _)
AddLexical(entries, results, docs) ==
  IF results = <<>> THEN entries
  ELSE LET key == Key(docs[Head(results)])
           i == KeyIndex(entries, key)
       IN AddLexical(IF i # 0
                     THEN [entries EXCEPT ![i].score = @ + 2, ![i].inBoth = TRUE]
                     ELSE MapSet(entries, [key |-> key, doc |-> Head(results),
                                           score |-> 1, inBoth |-> FALSE]),
                     Tail(results), docs)

\* hybridSearch once both result lists are there: merge, sort, map, slice
CombineResults(semanticResults, bm25Results, docs, topK) ==
  LET combinedResults == AddLexical(AddSemantic(<<>>, semanticResults, docs),
                                    bm25Results, docs)
      sorted == Sort("fusion", combinedResults)
  IN Slice([i \in 1 .. Len(sorted) |-> sorted[i].doc], topK)

\* sources of an answer: relevantDocs.map(doc => ({ url, title }))
Sources(results, docs) ==
  [i \in 1 .. Len(results) |->
     [url |-> docs[results[i]].url, title |-> docs[results[i]].title]]

\* the fixed answers of the query paths
NoInformation ==
  [generateResponse |-> "I don't have enough information to answer this question accurately.",
   processQuery     |-> "I couldn't find relevant information to answer your question. Please try a different query or specify websites to search."]

ErrorAnswer ==
  [generateResponse |-> "I encountered an error while processing your question.",
   processQuery     |-> "I encountered an error while processing your query. Please try again later.",
   langgraph        |-> "I encountered an error while trying to answer your question based on the web content."]

-----------------------------------------------------------------------------
(* Knowledge bases and queries *)

Repeat(c, n) == [i \in 1 .. n |-> c]

StoredDoc(url, content, source) ==
  [url |-> url, title |-> url, content |-> content, source |-> source]

\* the same first chunk of page u stored by the initial capture and again
\* after a click; a chunk of u that differs only after its 50th character
DocU1 == StoredDoc(<<"u">>, Repeat("x", PrefixLen) \o <<"a">>, <<"initial">>)
DocU2 == StoredDoc(<<"u">>, Repeat("x", PrefixLen) \o <<"a">>,
                   <<"interaction", "buttons", "More">>)
DocU3 == StoredDoc(<<"u">>, Repeat("x", PrefixLen) \o <<"c">>,
                   <<"interaction", "buttons", "More">>)
\* a chunk of u that differs from the others within its first 50 characters
DocU4 == StoredDoc(<<"u">>, <<"y", "o">>, <<"interaction", "buttons", "More">>)
\* a page whose url ends with the character its neighbour's text starts with
DocUx == StoredDoc(<<"u", "x">>, Repeat("x", PrefixLen - 1), <<"initial">>)
DocV  == StoredDoc(<<"v">>, <<"h", "i">>, <<"initial">>)
DocW  == StoredDoc(<<"w">>, <<"y">>, <<"initial">>)
DocZ  == StoredDoc(<<"z">>, <<"y">>, <<"initial">>)

Stored(docs, embeddings) ==
  [documents |-> docs,
   vectorStore |-> [i \in 1 .. Len(docs) |->
                      [url |-> docs[i].url, embedding |-> embeddings[i]]]]

Stores ==
  { Stored(<<>>, <<>>),
    Stored(<<DocU1, DocU2, DocU3, DocV>>,
           << <<1, 0>>, <<1, 0>>, <<3, 4>>, <<0, 1>> >>),
    Stored(<<DocUx, DocV, DocW, DocZ, DocU1>>,
           << <<1, 0>>, <<3, 4>>, <<4, 3>>, <<3, 4>>, <<0, 1>> >>),
    Stored(<<DocU1, DocU4, DocU2>>, << <<1, 0>>, <<3, 4>>, <<1, 0>> >>),
    \* a chunk whose embedding is the zero vector
    Stored(<<DocW>>, << <<0, 0>> >>) }

\* embeddings the service may return for the query
QueryVectors == { <<1, 0>>, <<0, 1>>, <<0, 0>> }

\* what the BM25 models of the two fields may return for a document
FieldScoreSet ==
  { [title |-> 0, content |-> 0], [title |-> 0, content |-> 1],
    [title |-> 1, content |-> 0], [title |-> 0, content |-> -1] }

\* equal field values get equal field scores
ConsistentScores(docs, fieldScores) ==
  \A i, j \in 1 .. Len(docs) :
    /\ docs[i].title = docs[j].title => fieldScores[i].title = fieldScores[j].title
    /\ docs[i].content = docs[j].content
         => fieldScores[i].content = fieldScores[j].content

\* the entry points: hybridSearch and BM25Ranker.search called directly,
\* and the three query paths
Calls ==
  { [path |-> p, topK |-> k, useBM25 |-> TRUE] :
      p \in {"hybridSearch", "search"}, k \in 1 .. MaxTopK }
  \cup { [path |-> "generateResponse", topK |-> GenerateTopK, useBM25 |-> TRUE],
         [path |-> "processQuery", topK |-> RankTopK, useBM25 |-> TRUE],
         [path |-> "processQuery", topK |-> RankTopK, useBM25 |-> FALSE],
         [path |-> "langgraph", topK |-> FilterTopK, useBM25 |-> TRUE] }

NewSearch(call, embedding, fieldScores) ==
  [pc |-> CASE call.path \in {"hybridSearch", "generateResponse"} -> "semantic"
            [] call.path = "search" -> "rank"
            [] call.path = "processQuery" -> "filter"
            [] OTHER -> "filterNode",
   path |-> call.path, topK |-> call.topK, useBM25 |-> call.useBM25,
   embedding |-> embedding, fieldScores |-> fieldScores,
   queryEmbedding |-> <<>>, embFailed |-> FALSE,
   similarities |-> <<>>,
   semanticResults |-> <<>>, bm25Results |-> <<>>, bm25TopK |-> 0,
   results |-> <<>>, answer |-> "", sources |-> <<>>, llmCalls |-> 0]

SearchInit ==
  /\ pageBrowser = FALSE
  /\ interactiveElementsMap = [u \in {} |-> <<>>]
  /\ visitedUrls = {}
  /\ stack = <<>>
  /\ contexts = <<>>
  /\ options = [maxInteractions |-> 1, maxTokens |-> 3]
  /\ roots = <<>>
  /\ rootDepth = 0
  /\ outcome = "none"
  /\ plan = <<>>
  /\ sessions = 0
  /\ faults = 0
  /\ invLog = <<>>
  /\ docInv = <<>>
  /\ gotoCount = [u \in URLs |-> 0]
  /\ adapter = NewAdapter
  /\ chunker = Idle
  /\ kb = Idle
  /\ explorer = Idle
  /\ cache = Idle
  /\ graph = Idle
  /\ \E store \in Stores, call \in Calls, embedding \in QueryVectors :
       \E fieldScores \in [1 .. Len(store.documents) -> FieldScoreSet] :
         /\ ConsistentScores(store.documents, fieldScores)
         /\ documents = store.documents
         /\ vectorStore = store.vectorStore
         /\ search = NewSearch(call, embedding, fieldScores)

\* semanticSearch: queryEmbedding = await this.createEmbedding(query); null
\* (the service call failed) gives [], else the topK most similar documents
SemanticSearch ==
  /\ search.pc = "semantic"
  /\ \/ search' = [search EXCEPT
                     !.pc = "combine",
                     !.queryEmbedding = search.embedding,
                     !.similarities = Similarities(search.embedding, vectorStore),
                     !.semanticResults =
                        SemanticRanking(search.embedding, vectorStore,
                                        search.topK * 2)]
     \/ search' = [search EXCEPT
                     !.pc = "combine",
                     !.embFailed = TRUE,
                     !.semanticResults = SemanticRanking(<<>>, vectorStore,
                                                         search.topK * 2)]
  /\ UNCHANGED <<pageBrowser, vectorStore, documents, interactiveElementsMap,
                 visitedUrls, stack, contexts, options, roots, rootDepth,
                 outcome, plan, sessions, faults, invLog, docInv, gotoCount,
                 adapter, chunker, kb, explorer, cache, graph>>

\* hybridSearch after await this.semanticSearch(query, topK * 2)
HybridSearch ==
  /\ search.pc = "combine"
  /\ LET bm25Results == BM25Search(search.fieldScores, search.topK * 2)
     IN search' = [search EXCEPT
                     !.pc = IF search.path = "generateResponse"
                            THEN "generate" ELSE "done",
                     !.bm25Results = bm25Results,
                     !.bm25TopK = search.topK * 2,
                     !.results = CombineResults(search.semanticResults, bm25Results,
                                                documents, search.topK)]
  /\ UNCHANGED <<pageBrowser, vectorStore, documents, interactiveElementsMap,
                 visitedUrls, stack, contexts, options, roots, rootDepth,
                 outcome, plan, sessions, faults, invLog, docInv, gotoCount,
                 adapter, chunker, kb, explorer, cache, graph>>

\* generateResponse after await this.hybridSearch(query, 3)
GenerateResponse ==
  /\ search.pc = "generate"
  /\ \/ /\ Len(search.results) = 0
        /\ search' = [search EXCEPT !.pc = "done",
                                    !.answer = NoInformation.generateResponse,
                                    !.sources = <<>>]
     \/ /\ Len(search.results) # 0
        /\ search' = [search EXCEPT !.pc = "done",
                                    !.llmCalls = @ + 1,
                                    !.answer = "response.choices[0].message.content",
                                    !.sources = Sources(search.results, documents)]
     \/ /\ Len(search.results) # 0
        /\ search' = [search EXCEPT !.pc = "done",
                                    !.llmCalls = @ + 1,
                                    !.answer = ErrorAnswer.generateResponse,
                                    !.sources = <<>>]
  /\ UNCHANGED <<pageBrowser, vectorStore, documents, interactiveElementsMap,
                 visitedUrls, stack, contexts, options, roots, rootDepth,
                 outcome, plan, sessions, faults, invLog, docInv, gotoCount,
                 adapter, chunker, kb, explorer, cache, graph>>

\* a direct call ranker.search(query, topK) on the stored documents
RankerSearch ==
  /\ search.pc = "rank"
  /\ LET bm25Results == BM25Search(search.fieldScores, search.topK)
     IN search' = [search EXCEPT !.pc = "done",
                                 !.bm25Results = bm25Results,
                                 !.bm25TopK = search.topK,
                                 !.results = bm25Results]
  /\ UNCHANGED <<pageBrowser, vectorStore, documents, interactiveElementsMap,
                 visitedUrls, stack, contexts, options, roots, rootDepth,
                 outcome, plan, sessions, faults, invLog, docInv, gotoCount,
                 adapter, chunker, kb, explorer, cache, graph>>

\* processQuery, step 3, once the documents of the sites are collected (here:
\* the stored documents): relevantDocuments = rankWithBM25(all, query, 10)
\* if useBM25 and there are documents, else all of them
ProcessQueryFilter ==
  /\ search.pc = "filter"
  /\ IF search.useBM25 /\ Len(documents) > 0
     THEN LET bm25Results == BM25Search(search.fieldScores, search.topK)
          IN search' = [search EXCEPT !.pc = "answer",
                                      !.bm25Results = bm25Results,
                                      !.bm25TopK = search.topK,
                                      !.results = bm25Results]
     ELSE search' = [search EXCEPT !.pc = "answer",
                                   !.results = [i \in 1 .. Len(documents) |-> i]]
  /\ UNCHANGED <<pageBrowser, vectorStore, documents, interactiveElementsMap,
                 visitedUrls, stack, contexts, options, roots, rootDepth,
                 outcome, plan, sessions, faults, invLog, docInv, gotoCount,
                 adapter, chunker, kb, explorer, cache, graph>>

\* processQuery, step 4: the fixed answer without documents, else the chat
\* completion (whose failure lands in the catch)
ProcessQueryAnswer ==
  /\ search.pc = "answer"
  /\ \/ /\ Len(search.results) = 0
        /\ search' = [search EXCEPT !.pc = "done",
                                    !.answer = NoInformation.processQuery,
                                    !.sources = <<>>]
     \/ /\ Len(search.results) # 0
        /\ search' = [search EXCEPT !.pc = "done",
                                    !.llmCalls = @ + 1,
                                    !.answer = "response.choices[0].message.content",
                                    !.sources = Sources(search.results, documents)]
     \/ /\ Len(search.results) # 0
        /\ search' = [search EXCEPT !.pc = "done",
                                    !.llmCalls = @ + 1,
                                    !.answer = ErrorAnswer.processQuery,
                                    !.sources = <<>>]
  /\ UNCHANGED <<pageBrowser, vectorStore, documents, interactiveElementsMap,
                 visitedUrls, stack, contexts, options, roots, rootDepth,
                 outcome, plan, sessions, faults, invLog, docInv, gotoCount,
                 adapter, chunker, kb, explorer, cache, graph>>

\* the filter_documents node: filtered_documents = ranker.search(query, 5)
FilterDocuments ==
  /\ search.pc = "filterNode"
  /\ LET bm25Results == BM25Search(search.fieldScores, search.topK)
     IN search' = [search EXCEPT !.pc = "generateNode",
                                 !.bm25Results = bm25Results,
                                 !.bm25TopK = search.topK,
                                 !.results = bm25Results]
  /\ UNCHANGED <<pageBrowser, vectorStore, documents, interactiveElementsMap,
                 visitedUrls, stack, contexts, options, roots, rootDepth,
                 outcome, plan, sessions, faults, invLog, docInv, gotoCount,
                 adapter, chunker, kb, explorer, cache, graph>>

\* the generate_response node, then run's return value: the chat completion
\* is called with the context built from filtered_documents, whatever their
\* number; sources are the filtered documents
GenerateResponseNode ==
  /\ search.pc = "generateNode"
  /\ \/ search' = [search EXCEPT !.pc = "done",
                                 !.llmCalls = @ + 1,
                                 !.answer = "response.choices[0].message.content",
                                 !.sources = Sources(search.results, documents)]
     \/ search' = [search EXCEPT !.pc = "done",
                                 !.llmCalls = @ + 1,
                                 !.answer = ErrorAnswer.langgraph,
                                 !.sources = Sources(search.results, documents)]
  /\ UNCHANGED <<pageBrowser, vectorStore, documents, interactiveElementsMap,
                 visitedUrls, stack, contexts, options, roots, rootDepth,
                 outcome, plan, sessions, faults, invLog, docInv, gotoCount,
                 adapter, chunker, kb, explorer, cache, graph>>

SearchNext ==
  \/ SemanticSearch
  \/ HybridSearch
  \/ GenerateResponse
  \/ RankerSearch
  \/ ProcessQueryFilter
  \/ ProcessQueryAnswer
  \/ FilterDocuments
  \/ GenerateResponseNode

SearchSpec == SearchInit /\ [][SearchNext]_vars

-----------------------------------------------------------------------------
(* chunkText called on its own *)

MaxParagraphs == 3
MaxTokenLimit == 4

\* a fresh DynamicWebsiteRAG on which no crawl is started
Fresh ==
  /\ pageBrowser = FALSE
  /\ interactiveElementsMap = [u \in {} |-> <<>>]
  /\ visitedUrls = {}
  /\ stack = <<>>
  /\ contexts = <<>>
  /\ options = [maxInteractions |-> 1, maxTokens |-> 3]
  /\ roots = <<>>
  /\ rootDepth = 0
  /\ outcome = "none"
  /\ plan = <<>>
  /\ sessions = 0
  /\ faults = 0
  /\ invLog = <<>>
  /\ docInv = <<>>
  /\ gotoCount = [u \in URLs |-> 0]

\* the words of the texts: "" is what split(' ') yields between two
\* spaces and for an empty paragraph
ChunkWords == {"", "w1", "long"}

ChunkParagraphSet ==
  {<<w>> : w \in ChunkWords} \cup {<<w, v>> : w, v \in ChunkWords}

\* the texts passed to chunkText; << <<"">> >> is the empty string
ChunkTexts == UNION {[1 .. n -> ChunkParagraphSet] : n \in 1 .. MaxParagraphs}

ChunkInit ==
  /\ Fresh
  /\ documents = <<>>
  /\ vectorStore = <<>>
  /\ adapter = NewAdapter
  /\ search = NoSearch
  /\ kb = Idle
  /\ explorer = Idle
  /\ cache = Idle
  /\ graph = Idle
  /\ chunker \in [pc : {"call"}, text : ChunkTexts, maxTokens : 1 .. MaxTokenLimit,
                  chunks : {<<>>}, by : {""}]

\* DynamicWebsiteRAG.chunkText(text, maxTokens)
ChunkText ==
  /\ chunker.pc = "call"
  /\ chunker' = [chunker EXCEPT !.pc = "done", !.by = "DynamicWebsiteRAG",
                                !.chunks = chunkText(chunker.text, chunker.maxTokens)]
  /\ UNCHANGED <<crawlVars, documents, vectorStore, adapter, search, kb,
                 explorer, cache, graph>>

\* Crawl4AIRagAdapter.chunkText(text, maxTokens): the same code
AdapterChunkText ==
  /\ chunker.pc = "call"
  /\ chunker' = [chunker EXCEPT !.pc = "done", !.by = "Crawl4AIRagAdapter",
                                !.chunks = chunkText(chunker.text, chunker.maxTokens)]
  /\ UNCHANGED <<crawlVars, documents, vectorStore, adapter, search, kb,
                 explorer, cache, graph>>

ChunkNext ==
  \/ ChunkText
  \/ AdapterChunkText

ChunkSpec == ChunkInit /\ [][ChunkNext]_vars

-----------------------------------------------------------------------------
(* Knowledge-base files: JSON text, exportKnowledgeBase, importKnowledgeBase *)

MaxKbCalls == 3

\* A JSON text is the sequence of its tokens: punctuation, null, and the
\* string and number literals with the value they denote
Tok(t) == [t |-> t]
Str(s) == [t |-> "string", v |-> s]

\* JSON.stringify of a number: NaN is written as null
Num(n) == IF n = NaN THEN Tok("null") ELSE [t |-> "number", v |-> n]

\* the texts of parts, separated by commas
RECURSIVE Joined(_)
Joined(parts) ==
  IF parts = <<>> THEN <<>>
  ELSE IF Len(parts) = 1 THEN parts[1]
       ELSE parts[1] \o <<Tok(",")>> \o Joined(Tail(parts))

\* JSON.stringify of an array whose elements have the texts parts
StringifyArray(parts) == <<Tok("[")>> \o Joined(parts) \o <<Tok("]")>>

\* JSON.stringify of an object: its properties in creation order
StringifyObject(members) ==
  <<Tok("{")>>
  \o Joined([i \in 1 .. Len(members) |->
               <<Str(members[i].key), Tok(":")>> \o members[i].text])
  \o <<Tok("}")>>

\* the properties of a document, in the order the pushes create them
DocumentKeys == <<"url", "title", "content", "chunkIndex", "source">>

StringifyDocument(doc) ==
  LET keys == SelectSeq(DocumentKeys, LAMBDA k : k \in DOMAIN doc)
  IN StringifyObject(
       [i \in 1 .. Len(keys) |->
          [key |-> keys[i],
           text |-> << IF keys[i] = "chunkIndex" THEN Num(doc[keys[i]])
                       ELSE Str(doc[keys[i]]) >>]])

StringifyVectorEntry(entry) ==
  StringifyObject(
    << [key |-> "url", text |-> <<Str(entry.url)>>],
       [key |-> "embedding",
        text |-> StringifyArray([i \in 1 .. Len(entry.embedding) |->
                                   <<Num(entry.embedding[i])>>])] >>)

StringifyDataNoVectors(docs, vecs, timestamp) ==
  StringifyObject(
    << [key |-> "documents",
        text |-> StringifyArray([i \in 1 .. Len(docs) |-> StringifyDocument(docs[i])])],
       [key |-> "timestamp", text |-> <<Str(timestamp)>>] >>)

\* JSON.stringify({ documents, vectorStore, timestamp }, null, 2)
StringifyData(docs, vecs, timestamp) ==
  StringifyObject(
    << [key |-> "documents",
        text |-> StringifyArray([i \in 1 .. Len(docs) |-> StringifyDocument(docs[i])])],
       [key |-> "vectorStore",
        text |-> StringifyArray([i \in 1 .. Len(vecs) |->
                                   StringifyVectorEntry(vecs[i])])],
       [key |-> "timestamp", text |-> <<Str(timestamp)>>] >>)

\* JSON.parse raises a SyntaxError
ParseFailed == [ok |-> FALSE]

\* a parsed value, with the type of value it is, the types of its
\* properties when it is an object, and the tokens that follow it
Parsed(type, value, types, rest) ==
  [ok |-> TRUE, type |-> type, value |-> value, types |-> types, rest |-> rest]

\* the object with the given members: a later member replaces an earlier
\* one of the same key
ObjectOf(members, field) ==
  LET keys == {members[i].key : i \in 1 .. Len(members)}
      Last(k) == CHOOSE i \in 1 .. Len(members) :
                   /\ members[i].key = k
                   /\ \A j \in i + 1 .. Len(members) : members[j].key # k
  IN [k \in keys |-> members[Last(k)][field]]

RECURSIVE ParseValue(_)
RECURSIVE ParseElements(_, _)
RECURSIVE ParseMembers(_, _)

\* the elements of an array, after "[" or ","
ParseElements(toks, acc) ==
  LET e == ParseValue(toks)
  IN IF ~e.ok \/ e.rest = <<>> THEN ParseFailed
     ELSE IF Head(e.rest).t = "]"
          THEN Parsed("array", Append(acc, e.value), <<>>, Tail(e.rest))
          ELSE IF Head(e.rest).t = ","
               THEN ParseElements(Tail(e.rest), Append(acc, e.value))
               ELSE ParseFailed

\* the members of an object, after "{" or ","
ParseMembers(toks, acc) ==
  IF Len(toks) < 2 \/ Head(toks).t # "string" \/ toks[2].t # ":"
  THEN ParseFailed
  ELSE LET m == ParseValue(SubSeq(toks, 3, Len(toks)))
           members == Append(acc, [key |-> Head(toks).v, type |-> m.type,
                                   value |-> m.value])
       IN IF ~m.ok \/ m.rest = <<>> THEN ParseFailed
          ELSE IF Head(m.rest).t = "}"
               THEN Parsed("object", ObjectOf(members, "value"),
                           ObjectOf(members, "type"), Tail(m.rest))
               ELSE IF Head(m.rest).t = ","
                    THEN ParseMembers(Tail(m.rest), members)
                    ELSE ParseFailed

ParseValue(toks) ==
  IF toks = <<>> THEN ParseFailed
  ELSE LET t == Head(toks).t
           rest == Tail(toks)
       IN CASE t = "null"   -> Parsed("null", "null", <<>>, rest)
            [] t = "number" -> Parsed("number", Head(toks).v, <<>>, rest)
            [] t = "string" -> Parsed("string", Head(toks).v, <<>>, rest)
            [] t = "["      -> IF rest # <<>> /\ Head(rest).t = "]"
                               THEN Parsed("array", <<>>, <<>>, Tail(rest))
                               ELSE ParseElements(rest, <<>>)
            [] t = "{"      -> IF rest # <<>> /\ Head(rest).t = "}"
                               THEN Parsed("object", <<>>, <<>>, Tail(rest))
                               ELSE ParseMembers(rest, <<>>)
            [] OTHER        -> ParseFailed

\* JSON.parse(text): one value and nothing after it
JsonParse(text) ==
  LET r == ParseValue(text)
  IN IF r.ok /\ r.rest = <<>> THEN r ELSE ParseFailed

\* whether data.key is defined, for data a parsed value other than null:
\* a number, a string and an array have no such property
HasMember(data, key) == data.type = "object" /\ key \in DOMAIN data.value

\* the values that x || [] replaces by []
Falsy(type, value) ==
  \/ type = "null"
  \/ type = "number" /\ value = 0
  \/ type = "string" /\ Len(value) = 0

\* data.key || []
OrEmpty(data, key) ==
  IF HasMember(data, key) /\ ~Falsy(data.types[key], data.value[key])
  THEN data.value[key]
  ELSE <<>>

NoFile == [exists |-> FALSE, text |-> <<>>]
FileOf(text) == [exists |-> TRUE, text |-> text]

ImportOutcomeClearing(file, docs, vecs) ==
  LET data == IF file.exists THEN JsonParse(file.text) ELSE ParseFailed
  IN IF ~data.ok \/ data.type = "null"
     THEN [result |-> FALSE, documents |-> <<>>, vectorStore |-> <<>>]
     ELSE [result |-> TRUE, documents |-> OrEmpty(data, "documents"),
           vectorStore |-> OrEmpty(data, "vectorStore")]

\* importKnowledgeBase(filePath) on an instance holding docs and vecs: what
\* it returns and what the stores are afterwards.  readFileSync raises
\* without the file, JSON.parse on a text that is not JSON, and
\* data.documents when data is null; each lands in the catch before any
\* assignment.
ImportOutcome(file, docs, vecs) ==
  LET data == IF file.exists THEN JsonParse(file.text) ELSE ParseFailed
  IN IF ~data.ok \/ data.type = "null"
     THEN [result |-> FALSE, documents |-> docs, vectorStore |-> vecs]
     ELSE [result |-> TRUE, documents |-> OrEmpty(data, "documents"),
           vectorStore |-> OrEmpty(data, "vectorStore")]

\* a chunk stored by the adapter
DocA == [url |-> <<"a">>, title |-> <<"A">>, content |-> <<"h", "o">>,
         chunkIndex |-> 0, source |-> <<"crawl4ai">>]

\* the knowledge bases an instance may hold when the first call is made
KbStores ==
  { Stored(<<>>, <<>>),
    Stored(<<DocV, DocW>>, << <<1, 0>>, <<3, 4>> >>),
    Stored(<<DocA>>, << <<0, 1>> >>) }

\* what the file may hold when the first call is made: nothing, a text cut
\* short, JSON values that are not objects, objects lacking an array, and
\* an exported knowledge base
KbFiles ==
  { NoFile,
    FileOf(<<Tok("{"), Str("documents"), Tok(":"), Tok("[")>>),
    FileOf(<<Tok("null")>>),
    FileOf(<<Num(5)>>),
    FileOf(StringifyArray(<<>>)),
    FileOf(StringifyObject(<<>>)),
    FileOf(StringifyObject(
             << [key |-> "documents",
                 text |-> StringifyArray(<<StringifyDocument(DocZ)>>)] >>)),
    FileOf(StringifyObject(
             << [key |-> "vectorStore",
                 text |-> StringifyArray(
                            <<StringifyVectorEntry([url |-> <<"z">>,
                                                    embedding |-> <<4, 3>>])>>)] >>)),
    FileOf(StringifyData(<<DocZ, DocV>>,
                         << [url |-> <<"z">>, embedding |-> <<4, 3>>],
                            [url |-> <<"v">>, embedding |-> <<1, 0>>] >>, 0)) }

\* semanticSearch(query) with the default topK
SearchTopK == 5

NewKb(file) ==
  [pc |-> "ready", file |-> file, calls |-> 0, last |-> "", result |-> FALSE,
   \* history of the calls
   before |-> [documents |-> <<>>, vectorStore |-> <<>>,
               adapterDocuments |-> <<>>, adapterVectorStore |-> <<>>],
   fileAtCall |-> NoFile,
   exported |-> [documents |-> <<>>, vectorStore |-> <<>>],
   fileExported |-> FALSE, imported |-> FALSE, found |-> <<>>]

Snapshot ==
  [documents |-> documents, vectorStore |-> vectorStore,
   adapterDocuments |-> adapter.documents,
   adapterVectorStore |-> adapter.vectorStore]

KbInit ==
  /\ Fresh
  /\ adapter = NewAdapter
  /\ search = NoSearch
  /\ chunker = Idle
  /\ explorer = Idle
  /\ cache = Idle
  /\ graph = Idle
  /\ \E store \in KbStores, file \in KbFiles :
       /\ documents = store.documents
       /\ vectorStore = store.vectorStore
       /\ kb = NewKb(file)

KbCall(name) ==
  [kb EXCEPT !.calls = @ + 1, !.last = name, !.before = Snapshot,
             !.fileAtCall = kb.file]

\* exportKnowledgeBase(filePath): writeFileSync either writes the whole
\* text, or raises (to the caller) having created or emptied the file or
\* not having touched it
ExportKnowledgeBase ==
  /\ kb.pc = "ready"
  /\ kb.calls < MaxKbCalls
  /\ \/ kb' = [KbCall("export") EXCEPT
                 !.file = FileOf(StringifyData(documents, vectorStore, kb.calls)),
                 !.result = TRUE,
                 !.exported = [documents |-> documents, vectorStore |-> vectorStore],
                 !.fileExported = TRUE]
     \/ kb' = [KbCall("export") EXCEPT !.result = FALSE]
     \/ kb' = [KbCall("export") EXCEPT !.result = FALSE,
                                       !.file = FileOf(<<>>),
                                       !.fileExported = FALSE]
  /\ UNCHANGED <<crawlVars, documents, vectorStore, adapter, search, chunker,
                 explorer, cache, graph>>

\* importKnowledgeBase(filePath)
ImportKnowledgeBase ==
  /\ kb.pc = "ready"
  /\ kb.calls < MaxKbCalls
  /\ LET out == ImportOutcome(kb.file, documents, vectorStore)
     IN /\ documents' = out.documents
        /\ vectorStore' = out.vectorStore
        /\ kb' = [KbCall("import") EXCEPT !.result = out.result,
                                          !.imported = @ \/ out.result]
  /\ UNCHANGED <<crawlVars, adapter, search, chunker, explorer, cache, graph>>

\* Crawl4AIRagAdapter.loadKnowledgeBase(filePath): the import of its
\* ragSystem, whose stores it copies when the import returned true
LoadKnowledgeBase ==
  /\ kb.pc = "ready"
  /\ kb.calls < MaxKbCalls
  /\ LET out == ImportOutcome(kb.file, documents, vectorStore)
     IN /\ documents' = out.documents
        /\ vectorStore' = out.vectorStore
        /\ adapter' = IF out.result
                      THEN [adapter EXCEPT !.documents = out.documents,
                                           !.vectorStore = out.vectorStore]
                      ELSE adapter
        /\ kb' = [KbCall("load") EXCEPT !.result = out.result,
                                        !.imported = @ \/ out.result]
  /\ UNCHANGED <<crawlVars, search, chunker, explorer, cache, graph>>

\* the caller goes on with a new DynamicWebsiteRAG (constructor)
NewInstance ==
  /\ kb.pc = "ready"
  /\ kb.calls < MaxKbCalls
  /\ documents # <<>> \/ vectorStore # <<>>
  /\ documents' = <<>>
  /\ vectorStore' = <<>>
  /\ kb' = [KbCall("new") EXCEPT !.imported = FALSE]
  /\ UNCHANGED <<crawlVars, adapter, search, chunker, explorer, cache, graph>>

\* semanticSearch(query) on the stores as they are: [] when the embedding
\* of the query is not obtained; else the documents at the positions of
\* the most similar vectors (a position beyond the documents yields
\* undefined)
SemanticSearchStored ==
  /\ kb.pc = "ready"
  /\ kb.calls < MaxKbCalls
  /\ \/ \E embedding \in {<<1, 0>>} :
          kb' = [KbCall("search") EXCEPT
                   !.found = SemanticRanking(embedding, vectorStore, SearchTopK)]
     \/ kb' = [KbCall("search") EXCEPT
                 !.found = SemanticRanking(<<>>, vectorStore, SearchTopK)]
  /\ UNCHANGED <<crawlVars, documents, vectorStore, adapter, search, chunker,
                 explorer, cache, graph>>

KbNext ==
  \/ ExportKnowledgeBase
  \/ ImportKnowledgeBase
  \/ LoadKnowledgeBase
  \/ NewInstance
  \/ SemanticSearchStored

KbSpec == KbInit /\ [][KbNext]_vars

-----------------------------------------------------------------------------
(* exploreInteractiveElements called on its own *)

MaxElements == 3

\* interactiveSelectors: the categories in iteration order, each with its
\* selectors in order
InteractiveSelectors ==
  << [category |-> "buttons", selectors |-> <<"button:visible", ".btn:visible">>],
     [category |-> "expandables", selectors |-> <<".expand:visible">>] >>

\* the selectors in the order the two loops reach them
AllSelectors ==
  InteractiveSelectors[1].selectors \o InteractiveSelectors[2].selectors

CategoryOf(selector) ==
  IF \E i \in 1 .. Len(InteractiveSelectors[1].selectors) :
       InteractiveSelectors[1].selectors[i] = selector
  THEN InteractiveSelectors[1].category
  ELSE InteractiveSelectors[2].category

\* the elements of a rendered page in document order: node is the position
\* of the element in the document, for pages of at most `most` elements
PageElements(most) ==
  UNION { { [i \in 1 .. n |->
               [node |-> i, selector |-> sel[i], category |-> CategoryOf(sel[i]),
                box |-> box[i], detached |-> det[i]]] :
              sel \in [1 .. n -> {AllSelectors[k] : k \in 1 .. Len(AllSelectors)}],
              box \in [1 .. n -> BOOLEAN], det \in [1 .. n -> BOOLEAN] } :
          n \in 0 .. most }

ExploreInit ==
  /\ Fresh
  /\ documents = <<>>
  /\ vectorStore = <<>>
  /\ adapter = NewAdapter
  /\ search = NoSearch
  /\ chunker = Idle
  /\ kb = Idle
  /\ cache = Idle
  /\ graph = Idle
  /\ \E elements \in PageElements(MaxElements) :
       \E failed \in SUBSET {AllSelectors[k] : k \in 1 .. Len(AllSelectors)} :
         explorer = [pc |-> "call", elements |-> elements, failed |-> failed,
                     interactiveElements |-> <<>>]

\* exploreInteractiveElements(page)
ExploreInteractiveElements ==
  /\ explorer.pc = "call"
  /\ explorer' = [explorer EXCEPT
                    !.pc = "done",
                    !.interactiveElements =
                       ExploreOver(AllSelectors, 1, explorer.elements,
                                   explorer.failed)]
  /\ UNCHANGED <<crawlVars, documents, vectorStore, adapter, search, chunker,
                 kb, cache, graph>>

ExploreNext == ExploreInteractiveElements

ExploreSpec == ExploreInit /\ [][ExploreNext]_vars

-----------------------------------------------------------------------------
(* RAG2System.getWebsiteData and its cache *)

MaxCacheCalls == 3
MaxTime == 2

\* the sites asked for: the first matches one of dynamicSitePatterns
\* ('spa'), the others do not
CacheUrls == {"spa.example", "docs.example", "blog.example"}

\* dynamicSitePatterns.some(pattern => url.toLowerCase().includes(pattern))
NeedsDynamicCrawling(url) == url = "spa.example"

\* the array a crawl of url appends to and getWebsiteData caches:
\* this.dynamicRAG.documents or this.crawl4aiAdapter.documents
CrawlerOf(url) == IF NeedsDynamicCrawling(url) THEN "dynamicRAG" ELSE "crawl4aiAdapter"

\* the present content of the array a reference points to; "none" is the
\* new empty array of return []
Deref(ref) ==
  CASE ref = "dynamicRAG"      -> documents
    [] ref = "crawl4aiAdapter" -> adapter.documents
    [] OTHER                   -> <<>>

NoEntry == [documents |-> "none", timestamp |-> -1]

\* this.dataCache.get(cacheKey): the key website_<url> is one per url
CacheGet(dataCache, url) ==
  IF url \in DOMAIN dataCache THEN dataCache[url] ELSE NoEntry

\* this.dataCache.set(cacheKey, { documents, timestamp })
CacheSet(dataCache, url, entry) ==
  [u \in DOMAIN dataCache \cup {url} |-> IF u = url THEN entry ELSE dataCache[u]]

IsFreshOrForced(cachedData, forceRefresh, now, cacheExpiration) ==
  /\ cachedData # NoEntry
  /\ now - cachedData.timestamp < cacheExpiration

\* !forceRefresh && cachedData &&
\* (Date.now() - cachedData.timestamp) < this.options.cacheExpiration
IsFresh(cachedData, forceRefresh, now, cacheExpiration) ==
  /\ ~forceRefresh
  /\ cachedData # NoEntry
  /\ now - cachedData.timestamp < cacheExpiration

\* the chunk a crawl of url stores
CrawledDoc(url) ==
  [url |-> url, title |-> url, content |-> TextPlain, source |-> "initial"]

CrawledVector(url) == [url |-> url, embedding |-> EmbeddingOf(TextPlain)]

NoCall ==
  [url |-> "", forceRefresh |-> FALSE, cachedData |-> NoEntry, start |-> 0]

\* no processQuery is under way
NoQuery == [pc |-> "none", sites |-> <<>>, allDocuments |-> <<>>]

\* the site lists processQuery is given (or is suggested by the model)
QuerySites ==
  { <<"docs.example", "blog.example">>, <<"spa.example", "docs.example">> }

\* allDocuments = [...allDocuments, ...documents] for the list of n
\* documents that getWebsiteData returned from the array ref, and the
\* next url of the loop; a document is named by its array and position
Collect(query, ref, n) ==
  IF query.pc # "collect" THEN query
  ELSE [pc |-> IF Len(query.sites) = 1 THEN "collected" ELSE "collect",
        sites |-> Tail(query.sites),
        allDocuments |-> query.allDocuments
                           \o [i \in 1..n |-> [store |-> ref, index |-> i]]]

NewCache(cacheExpiration) ==
  [pc |-> "idle", now |-> 0, cacheExpiration |-> cacheExpiration,
   dataCache |-> [u \in {} |-> NoEntry], call |-> NoCall, calls |-> 0,
   query |-> NoQuery,
   \* history of the last call
   last |-> [url |-> "", forceRefresh |-> FALSE, cachedData |-> NoEntry,
             start |-> 0, end |-> 0, crawled |-> FALSE, outcome |-> "none",
             returned |-> "none", returnedDocs |-> <<>>, cachedDocs |-> <<>>]]

CacheInit ==
  /\ Fresh
  /\ documents = <<>>
  /\ vectorStore = <<>>
  /\ adapter = NewAdapter
  /\ search = NoSearch
  /\ chunker = Idle
  /\ kb = Idle
  /\ explorer = Idle
  /\ graph = Idle
  /\ \E cacheExpiration \in {1, 2} : cache = NewCache(cacheExpiration)

\* the record of a call that has returned
Ended(call, crawled, how, returned, docs, now) ==
  [url |-> call.url, forceRefresh |-> call.forceRefresh,
   cachedData |-> call.cachedData, start |-> call.start, end |-> now,
   crawled |-> crawled, outcome |-> how, returned |-> returned,
   returnedDocs |-> docs,
   cachedDocs |-> Deref(call.cachedData.documents)]

\* Date.now() advances
Tick ==
  /\ cache.now < MaxTime
  /\ cache' = [cache EXCEPT !.now = @ + 1]
  /\ UNCHANGED <<crawlVars, documents, vectorStore, adapter, search, chunker,
                 kb, explorer, graph>>

\* processQuery(query, websiteUrls) up to its loop over sitesToCrawl
ProcessQuery ==
  /\ cache.pc = "idle"
  /\ cache.query.pc # "collect"
  /\ cache.calls < MaxCacheCalls
  /\ \E sitesToCrawl \in QuerySites :
       cache' = [cache EXCEPT !.query = [pc |-> "collect", sites |-> sitesToCrawl,
                                         allDocuments |-> <<>>]]
  /\ UNCHANGED <<crawlVars, documents, vectorStore, adapter, search, chunker,
                 kb, explorer, graph>>

\* getWebsiteData(url, forceRefresh) up to its first await: the cached
\* documents are returned, or a crawl of url is started; the caller is
\* the loop of processQuery (the next url, forceRefresh left out) or
\* another user of the RAG2System
GetWebsiteData ==
  /\ cache.pc = "idle"
  /\ cache.calls < MaxCacheCalls
  /\ \E url \in CacheUrls, forceRefresh \in BOOLEAN :
       LET cachedData == CacheGet(cache.dataCache, url)
           call == [url |-> url, forceRefresh |-> forceRefresh,
                    cachedData |-> cachedData, start |-> cache.now]
       IN /\ cache.query.pc = "collect"
               => url = Head(cache.query.sites) /\ ~forceRefresh
          /\ IF IsFresh(cachedData, forceRefresh, cache.now, cache.cacheExpiration)
             THEN cache' = [cache EXCEPT
                              !.calls = @ + 1,
                              !.query = Collect(@, cachedData.documents,
                                                Len(Deref(cachedData.documents))),
                              !.last = Ended(call, FALSE, "cached",
                                             cachedData.documents,
                                             Deref(cachedData.documents), cache.now)]
             ELSE cache' = [cache EXCEPT !.calls = @ + 1, !.pc = "crawl",
                                         !.call = call]
  /\ UNCHANGED <<crawlVars, documents, vectorStore, adapter, search, chunker,
                 kb, explorer, graph>>

\* the crawl returns, having appended the chunks it embedded (here one or
\* none) to the array of its crawler; the array is cached with the time
\* and returned
CrawlReturns ==
  /\ cache.pc = "crawl"
  /\ \E n \in {0, 1} :
       LET url == cache.call.url
           docs == IF n = 1 THEN <<CrawledDoc(url)>> ELSE <<>>
           vecs == IF n = 1 THEN <<CrawledVector(url)>> ELSE <<>>
       IN /\ IF NeedsDynamicCrawling(url)
             THEN /\ documents' = documents \o docs
                  /\ vectorStore' = vectorStore \o vecs
                  /\ UNCHANGED adapter
             ELSE /\ adapter' = [adapter EXCEPT !.documents = @ \o docs,
                                                !.vectorStore = @ \o vecs]
                  /\ UNCHANGED <<documents, vectorStore>>
          /\ cache' = [cache EXCEPT
                         !.pc = "idle",
                         !.call = NoCall,
                         !.dataCache = CacheSet(@, url,
                                                [documents |-> CrawlerOf(url),
                                                 timestamp |-> cache.now]),
                         !.query = Collect(@, CrawlerOf(url),
                                           Len(Deref(CrawlerOf(url)) \o docs)),
                         !.last = Ended(cache.call, TRUE, "crawled", CrawlerOf(url),
                                        Deref(CrawlerOf(url)) \o docs, cache.now)]
  /\ UNCHANGED <<crawlVars, search, chunker, kb, explorer, graph>>

FallbackEmpty(cachedData) == "none"

\* catch: if (cachedData) return cachedData.documents; return [];
Fallback(cachedData) ==
  IF cachedData # NoEntry THEN cachedData.documents ELSE "none"

\* the crawl raises and the catch returns the fallback.  crawlDynamicSite
\* raises before its try, with nothing stored; crawlWebsite rethrows what
\* installCrawl4AI, the crawl script or processCrawledData raise, the
\* last possibly after an item was stored (a later item that is null, or
\* whose content is not a string)
CrawlRaises ==
  /\ cache.pc = "crawl"
  /\ \E n \in {0, 1} :
       LET url == cache.call.url
           returned == Fallback(cache.call.cachedData)
           stored == IF returned = "crawl4aiAdapter" /\ n = 1
                     THEN <<CrawledDoc(url)>> ELSE <<>>
       IN /\ n = 1 => ~NeedsDynamicCrawling(url)
          /\ IF n = 1
             THEN adapter' = [adapter EXCEPT
                                !.documents = @ \o <<CrawledDoc(url)>>,
                                !.vectorStore = @ \o <<CrawledVector(url)>>]
             ELSE UNCHANGED adapter
          /\ cache' = [cache EXCEPT
                         !.pc = "idle",
                         !.call = NoCall,
                         !.query = Collect(@, returned,
                                           Len(Deref(returned) \o stored)),
                         !.last = Ended(cache.call, TRUE, "failed", returned,
                                        Deref(returned) \o stored, cache.now)]
  /\ UNCHANGED <<crawlVars, documents, vectorStore, search, chunker, kb,
                 explorer, graph>>

CacheNext ==
  \/ Tick
  \/ GetWebsiteData
  \/ CrawlReturns
  \/ CrawlRaises

CacheSpec == CacheInit /\ [][CacheNext]_vars

\* a getWebsiteData call made by the loop of processQuery
QueryGetsWebsiteData ==
  /\ cache.query.pc = "collect"
  /\ GetWebsiteData

\* processQuery calls on a RAG2System, one after the other
QueryNext ==
  \/ Tick
  \/ ProcessQuery
  \/ QueryGetsWebsiteData
  \/ CrawlReturns
  \/ CrawlRaises

QuerySpec == CacheInit /\ [][QueryNext]_vars

-----------------------------------------------------------------------------
(* LangGraphRAG: the workflow built by buildWorkflow, and run *)

MaxRuns == 2

\* the nodes in the order buildWorkflow adds them
Nodes == <<"process_query", "crawl_websites", "filter_documents", "generate_response">>

\* builder.addEdge(from, to)
Edges ==
  { <<"process_query", "crawl_websites">>,
    <<"crawl_websites", "filter_documents">>,
    <<"filter_documents", "generate_response">> }

\* builder.addConditionalEdges(node, (state) => state.error ? "end" : next)
Routed == {"process_query", "crawl_websites", "filter_documents"}

Route(node, state) ==
  IF state.error # "null" THEN "end"
  ELSE CASE node = "process_query"    -> "crawl_websites"
         [] node = "crawl_websites"   -> "filter_documents"
         [] node = "filter_documents" -> "generate_response"

\* the step the compiled graph runs after node, "close" when the run of the
\* graph is over.  A routed node has an edge of addEdge and a conditional
\* edge; the graph library either follows both (additive) or lets the
\* conditional edge decide.  "end" names no node: nothing runs for it
NextStep(additive, node, state) ==
  LET byEdge == {e[2] : e \in {d \in Edges : d[1] = node}}
      byRouter == IF node \in Routed THEN {Route(node, state)} ELSE {}
      targets == IF additive \/ node \notin Routed
                 THEN (byEdge \cup byRouter) \ {"end"}
                 ELSE byRouter \ {"end"}
  IN IF targets = {} THEN "close" ELSE CHOOSE t \in targets : TRUE

\* initialState of run
InitialState ==
  [crawl_urls |-> <<>>, documents |-> "none", filtered_documents |-> <<>>,
   response |-> "", error |-> "null"]

\* the urls the chat completion of process_query names
CrawlUrlLists == { <<>>, <<"spa.example">>, <<"spa.example", "docs.example">> }

\* what the BM25 models return for a document in filter_documents
NodeScoreSet == { [title |-> 0, content |-> 0], [title |-> 0, content |-> 1] }

NoResult == [how |-> "none", answer |-> "", error |-> "null", sources |-> <<>>]

NoError == [at |-> 0, error |-> "null"]

NewGraph(additive) ==
  [pc |-> "idle", additive |-> additive, runs |-> 0, state |-> InitialState,
   todo |-> <<>>, result |-> NoResult,
   \* history of the run: the steps started, the first error a step set
   \* and the position of that step, the error invoke raised, whether the
   \* run launched a browser, the crawlDynamicSite calls made without one
   trace |-> <<>>, firstError |-> NoError, thrown |-> "null",
   launched |-> FALSE, crawledUnlaunched |-> FALSE,
   \* how the run before this one ended
   previous |-> "none"]

\* the arrays the documents field of the state may refer to
StateDocuments(ref) == IF ref = "ragSystem" THEN documents ELSE <<>>

\* the state after a step returned update (the fields it names replace
\* those of the state), and the history of the first error
Stepped(g, update) ==
  LET merged == [f \in DOMAIN g.state |->
                   IF f \in DOMAIN update THEN update[f] ELSE g.state[f]]
      node == g.trace[Len(g.trace)]
  IN [g EXCEPT
        !.state = merged,
        !.todo = <<>>,
        !.pc = NextStep(g.additive, node, merged),
        !.firstError = IF "error" \in DOMAIN update /\ @ = NoError
                       THEN [at |-> Len(g.trace), error |-> update.error]
                       ELSE @]

\* a step is entered
Entered(g, node) == [g EXCEPT !.trace = Append(@, node)]

graphRest == <<interactiveElementsMap, visitedUrls, stack, contexts, options,
               roots, rootDepth, outcome, plan, sessions, faults, invLog,
               docInv, gotoCount, adapter, search, chunker, kb, explorer,
               cache>>

GraphInit ==
  /\ Fresh
  /\ documents = <<>>
  /\ vectorStore = <<>>
  /\ adapter = NewAdapter
  /\ search = NoSearch
  /\ chunker = Idle
  /\ kb = Idle
  /\ explorer = Idle
  /\ cache = Idle
  /\ \E additive \in BOOLEAN : graph = NewGraph(additive)

\* run(query) up to the first step of this.graph.invoke(initialState)
Run ==
  /\ graph.pc = "idle"
  /\ graph.runs < MaxRuns
  /\ graph' = [NewGraph(graph.additive) EXCEPT
                 !.pc = Nodes[1], !.runs = graph.runs + 1,
                 !.previous = graph.result.how]
  /\ UNCHANGED <<pageBrowser, documents, vectorStore, graphRest>>

\* process_query: the chat completion names the urls, or it (or the
\* JSON.parse of its content) raises and the catch returns the error
ProcessQueryNode ==
  /\ graph.pc = "process_query"
  /\ \/ \E urls \in CrawlUrlLists :
          graph' = Stepped(Entered(graph, "process_query"), [crawl_urls |-> urls])
     \/ graph' = Stepped(Entered(graph, "process_query"),
                         [error |-> "Error processing query"])
  /\ UNCHANGED <<pageBrowser, documents, vectorStore, graphRest>>

\* crawl_websites up to its loop: the browser is launched if there is none
CrawlWebsitesNode ==
  /\ graph.pc = "crawl_websites"
  /\ \/ /\ pageBrowser' = TRUE
        /\ graph' = [Entered(graph, "crawl_websites") EXCEPT
                       !.pc = "crawling",
                       !.todo = graph.state.crawl_urls,
                       !.launched = ~pageBrowser]
     \/ /\ ~pageBrowser
        /\ UNCHANGED pageBrowser
        /\ graph' = Stepped(Entered(graph, "crawl_websites"),
                            [error |-> "Error crawling websites"])
  /\ UNCHANGED <<documents, vectorStore, graphRest>>

\* await this.ragSystem.crawlDynamicSite(url, 1, visitedUrls): it stores
\* the chunks it embedded (here one or none) and returns, or raises
CrawlSite ==
  /\ graph.pc = "crawling"
  /\ graph.todo # <<>>
  /\ LET url == Head(graph.todo)
         called == [graph EXCEPT !.crawledUnlaunched = @ \/ ~graph.launched]
     IN \/ \E n \in {0, 1} :
             /\ documents' = IF n = 1 THEN Append(documents, CrawledDoc(url))
                             ELSE documents
             /\ vectorStore' = IF n = 1 THEN Append(vectorStore, CrawledVector(url))
                               ELSE vectorStore
             /\ graph' = [called EXCEPT !.todo = Tail(@)]
        \/ /\ graph' = Stepped(called, [error |-> "Error crawling websites"])
           /\ UNCHANGED <<documents, vectorStore>>
  /\ UNCHANGED <<pageBrowser, graphRest>>

\* crawl_websites after its loop: return { documents: this.ragSystem.documents }
CrawlWebsitesReturns ==
  /\ graph.pc = "crawling"
  /\ graph.todo = <<>>
  /\ graph' = Stepped(graph, [documents |-> "ragSystem"])
  /\ UNCHANGED <<pageBrowser, documents, vectorStore, graphRest>>

\* filter_documents: ranker.search(state.query, 5) over state.documents,
\* or the ranker raises
FilterDocumentsNode ==
  /\ graph.pc = "filter_documents"
  /\ \/ \E fieldScores \in [1 .. Len(StateDocuments(graph.state.documents))
                             -> NodeScoreSet] :
          graph' = Stepped(Entered(graph, "filter_documents"),
                           [filtered_documents |-> BM25Search(fieldScores, FilterTopK)])
     \/ graph' = Stepped(Entered(graph, "filter_documents"),
                         [error |-> "Error filtering documents"])
  /\ UNCHANGED <<pageBrowser, documents, vectorStore, graphRest>>

\* generate_response: the chat completion answers, or it raises and the
\* catch returns the error with the fixed response
GenerateNode ==
  /\ graph.pc = "generate_response"
  /\ \/ graph' = Stepped(Entered(graph, "generate_response"),
                         [response |-> "response.choices[0].message.content"])
     \/ graph' = Stepped(Entered(graph, "generate_response"),
                         [error |-> "Error generating response",
                          response |-> ErrorAnswer.langgraph])
  /\ UNCHANGED <<pageBrowser, documents, vectorStore, graphRest>>

\* this.graph.invoke raises between two steps (an error of the graph
\* library): run continues in its catch
InvokeRaises ==
  /\ graph.pc \in {Nodes[i] : i \in DOMAIN Nodes}
  /\ graph' = [graph EXCEPT !.pc = "catch", !.thrown = "invoke"]
  /\ UNCHANGED <<pageBrowser, documents, vectorStore, graphRest>>

CloseKeeping(browser) == browser

\* close(): if (this.pageBrowser) { await this.pageBrowser.close();
\* this.pageBrowser = null; }
Close(browser) == FALSE

\* run after invoke: await this.ragSystem.close() (the browser is closed
\* and pageBrowser set to null if there is one) and the result is returned;
\* a close of the browser that raises leads to the catch
RunCloses ==
  /\ graph.pc = "close"
  /\ \/ /\ pageBrowser' = Close(pageBrowser)
        /\ graph' = [graph EXCEPT
                       !.pc = "idle",
                       !.result = [how |-> "returned",
                                   answer |-> graph.state.response,
                                   error |-> graph.state.error,
                                   sources |-> Sources(graph.state.filtered_documents,
                                                       documents)]]
     \/ /\ pageBrowser
        /\ UNCHANGED pageBrowser
        /\ graph' = [graph EXCEPT !.pc = "catch", !.thrown = "close"]
  /\ UNCHANGED <<documents, vectorStore, graphRest>>

\* the catch of run: close again, and return the error; a close that
\* raises here leaves run by the exception
RunCatches ==
  /\ graph.pc = "catch"
  /\ \/ /\ pageBrowser' = Close(pageBrowser)
        /\ graph' = [graph EXCEPT
                       !.pc = "idle",
                       !.result = [how |-> "returned",
                                   answer |-> "An error occurred while processing your query.",
                                   error |-> graph.thrown,
                                   sources |-> <<>>]]
     \/ /\ pageBrowser
        /\ UNCHANGED pageBrowser
        /\ graph' = [graph EXCEPT !.pc = "idle",
                                  !.result = [NoResult EXCEPT !.how = "raised"]]
  /\ UNCHANGED <<documents, vectorStore, graphRest>>

GraphNext ==
  \/ Run
  \/ ProcessQueryNode
  \/ CrawlWebsitesNode
  \/ CrawlSite
  \/ CrawlWebsitesReturns
  \/ FilterDocumentsNode
  \/ GenerateNode
  \/ InvokeRaises
  \/ RunCloses
  \/ RunCatches

GraphSpec == GraphInit /\ [][GraphNext]_vars

-----------------------------------------------------------------------------
(* Properties *)

\* invocation a is a proper descendant of invocation b in the crawl tree
RECURSIVE Descends(_, _)
Descends(a, b) ==
  IF a = 0 THEN FALSE
  ELSE invLog[a].parent = b \/ Descends(invLog[a].parent, b)

OnStack(id) == \E k \in 1 .. Len(stack) : stack[k].id = id

\* C1: the document sequence and the vector-entry sequence always have the
\* same length and entry i of one has the url of entry i of the other, in
\* every state between two awaits of a crawl (a document and its vector
\* entry are never appended one without the other).
StoresAligned ==
  /\ Len(documents) = Len(vectorStore)
  /\ \A i \in 1 .. Len(documents) : vectorStore[i].url = documents[i].url

\* an embedding failed, and a click that navigated stored a document under
\* the new URL, next to documents of other pages
StoresAlignedWitness ==
  /\ faults > 0
  /\ Len(documents) >= 3
  /\ \E k \in 1 .. Len(stack) : stack[k].embFailed
  /\ \E i \in 1 .. Len(documents) :
       /\ documents[i].source[1] = "interaction"
       /\ documents[i].url # invLog[docInv[i]].url

\* C2: every top-level crawlDynamicSite call that was started eventually
\* completes (the call stack empties), given that every await completes.
CrawlTerminates == (stack # <<>>) ~> (stack = <<>>)

\* a depth-2 crawl of the cyclic site, with a click that changed the URL,
\* has returned
CrawlTerminatesWitness ==
  /\ stack = <<>>
  /\ outcome = "returned"
  /\ \E i \in 1 .. Len(invLog) :
       /\ invLog[i].depth = 2 /\ invLog[i].url = "a/0" /\ invLog[i].parent = 0
  /\ "a/2" \in visitedUrls
  /\ Len(invLog) >= 3

\* C3 (as claimed): a browsing context that is open belongs to an
\* invocation that has not returned yet.
ContextsClosedOnReturn ==
  \A c \in 1 .. Len(contexts) : contexts[c].open => OnStack(contexts[c].owner)

\* C4: when an invocation whose page.goto or initial capture failed leaves
\* the stack, it has returned normally, the stores are as they were, and
\* its caller goes on with the next sibling link.
NavigationFailureContained ==
  [][ (/\ stack # <<>>
       /\ Top.failure \in {"goto", "capture"}
       /\ Len(stack') < Len(stack))
      => (/\ invLog'[Top.id].status = "returned"
          /\ documents' = documents
          /\ vectorStore' = vectorStore
          /\ Len(stack) = 1 => outcome' = "returned"
          /\ Len(stack) > 1 =>
               LET p  == stack[Len(stack) - 1]
                   p2 == stack'[Len(stack) - 1]
               IN /\ p2.failure = ""
                  /\ p2.li = p.li + 1
                  /\ p2.pc = IF p2.li <= Len(p.sameDomainLinks)
                             THEN "call" ELSE "finally") ]_vars

\* a child whose navigation failed has returned, a later sibling was
\* crawled after it and earlier documents are still stored
NavigationFailureContainedWitness ==
  \E i, j \in 1 .. Len(invLog) :
    /\ i < j
    /\ invLog[i].failure \in {"goto", "capture"}
    /\ invLog[i].status = "returned"
    /\ invLog[i].parent # 0
    /\ invLog[j].parent = invLog[i].parent
    /\ \E d \in 1 .. Len(documents) : docInv[d] = invLog[i].parent

\* C5: within one crawl call (one visited set) every URL passes the guard
\* at most once and page.goto is called for it at most once.
EachUrlCrawledOnce ==
  \A u \in URLs :
    /\ gotoCount[u] <= 1
    /\ Cardinality({i \in 1 .. Len(invLog) :
                      invLog[i].url = u /\ invLog[i].session = sessions}) <= 1
    /\ gotoCount[u] = 1 => u \in visitedUrls

\* the second root URL had been crawled through a link of the first one:
\* the second top-level invocation did nothing
EachUrlCrawledOnceWitness ==
  /\ outcome = "noop"
  /\ rootDepth = 1
  /\ stack = <<>>
  /\ gotoCount["a/0"] = 1
  /\ gotoCount["a/1"] = 1

\* C6: an invocation on a visited url, or with depth < 0, returns at once
\* and changes neither the stores, nor the visited set, nor the element
\* map, launches no browser and opens no context.
GuardIsNoOp ==
  [][ (/\ stack # <<>>
       /\ Top.pc = "guard"
       /\ (Top.url \in visitedUrls \/ Top.depth < 0))
      => (/\ Len(stack') = Len(stack) - 1
          /\ documents' = documents
          /\ vectorStore' = vectorStore
          /\ visitedUrls' = visitedUrls
          /\ interactiveElementsMap' = interactiveElementsMap
          /\ pageBrowser' = pageBrowser
          /\ contexts' = contexts) ]_vars

\* a call with depth -1 on a fresh instance has returned: nothing launched
GuardIsNoOpWitness ==
  /\ outcome = "noop"
  /\ rootDepth = -1
  /\ stack = <<>>
  /\ visitedUrls = {}
  /\ pageBrowser = FALSE
  /\ contexts = <<>>

\* C7: documents are appended depth-first: no document of an invocation
\* follows a document of one of its descendants, the 'initial' documents
\* of an invocation precede its interaction documents, and once an
\* invocation has extracted its links it appends no document any more.
DepthFirstOrder ==
  /\ \A i, j \in 1 .. Len(documents) :
       i < j =>
         /\ ~Descends(docInv[i], docInv[j])
         /\ (docInv[i] = docInv[j] /\ documents[j].source = <<"initial">>)
              => documents[i].source = <<"initial">>
  /\ \A k \in 1 .. Len(stack) :
       stack[k].docEnd >= 0 =>
         \A i \in stack[k].docEnd + 1 .. Len(documents) : docInv[i] # stack[k].id

\* a page stored initial and interaction documents, then a page reached
\* through one of its links stored documents of its own
DepthFirstOrderWitness ==
  \E i, j, k \in 1 .. Len(documents) :
    /\ i < j /\ j < k
    /\ docInv[i] = docInv[j]
    /\ documents[i].source = <<"initial">>
    /\ documents[j].source[1] = "interaction"
    /\ Descends(docInv[k], docInv[i])

\* C8: a recursive invocation is made only by an invocation with depth > 0,
\* with that depth minus one, on a link of the invoker's hostname that was
\* not visited when the links were filtered; an invocation makes at most 5
\* of them; every invocation of a crawl tree has the root URL's hostname.
RecursionBounded ==
  /\ \A k \in 1 .. Len(stack) :
       /\ stack[k].calls <= 5
       /\ stack[k].depth <= 0 => stack[k].calls = 0
  /\ \A k \in 2 .. Len(stack) :
       LET p == stack[k - 1]
           c == stack[k]
       IN /\ p.depth > 0
          /\ c.depth = p.depth - 1
          /\ Hostname(c.url) = Hostname(p.url)
          /\ c.url \notin p.visAtFilter
          /\ Hostname(c.url) = Hostname(stack[1].url)

\* a depth-2 root with more than five candidate links makes its fifth
\* recursive invocation, after a page two levels below it was crawled
RecursionBoundedWitness ==
  /\ Len(stack) = 2
  /\ stack[1].depth = 2
  /\ stack[1].calls = 5
  /\ stack[2].pc = "guard"
  /\ Len(SelectSeq(Site[stack[1].url].hrefs, KeepHref)) > 5
  /\ \E i \in 1 .. Len(invLog) : invLog[i].depth = 0 /\ invLog[i].parent # 0

\* C9: an invocation with depth 0 on a page without interactive elements,
\* whose navigation, capture and embedding calls all succeeded, has
\* appended exactly the chunks of the initial capture, in order, as
\* 'initial' documents of its url, made no recursive invocation and added
\* only its url to the visited set.
PlainPageCrawl ==
  \A k \in 1 .. Len(stack) :
    LET f == stack[k]
        chunks == chunkText(htmlToMarkdown(Site[f.url].html), options.maxTokens)
    IN (/\ f.pc = "finally"
        /\ f.depth = 0
        /\ f.failure = ""
        /\ ~f.embFailed
        /\ Site[f.url].elements = <<>>)
       => /\ Len(documents) = f.docStart + Len(chunks)
          /\ Len(vectorStore) = Len(documents)
          /\ \A i \in 1 .. Len(chunks) :
               documents[f.docStart + i] =
                 [url |-> f.url, title |-> f.url, content |-> chunks[i],
                  source |-> <<"initial">>]
          /\ f.calls = 0
          /\ visitedUrls = f.visAtEntry \cup {f.url}

\* such an invocation, on a page of two chunks, is about to return
PlainPageCrawlWitness ==
  /\ stack # <<>>
  /\ Top.pc = "finally"
  /\ Top.depth = 0
  /\ Top.failure = ""
  /\ ~Top.embFailed
  /\ Site[Top.url].elements = <<>>
  /\ Len(documents) = Top.docStart + 2

\* C10 (as claimed): an interaction whose re-captured text equals the
\* previously captured text appends no document and consumes one of the
\* maxInteractions attempts (interactionsCount grows by one).
UnchangedInteractionCounts ==
  [][ (/\ stack # <<>>
       /\ Top.pc = "recapture"
       /\ htmlToMarkdown(Top.html) = Top.markdown
       /\ faults' = faults)
      => (/\ documents' = documents
          /\ vectorStore' = vectorStore
          /\ stack'[Len(stack)].interactionsCount = Top.interactionsCount + 1) ]_vars

\* C11 (as claimed): within one invocation the number of discovered
\* elements that were clicked never exceeds options.maxInteractions,
\* whatever the interactions did (new content, unchanged content, failure).
ClicksWithinBudget ==
  \A k \in 1 .. Len(stack) :
    Cardinality(stack[k].clicked) <= options.maxInteractions

\* C12 (as claimed): in an invocation with depth > 0, a URL the page was
\* taken to by a click is in visitedUrls and the page is back at the
\* invocation's url whenever the next interaction starts or the links are
\* extracted, also when the text captured after the click was unchanged or
\* a step after the click failed.
UrlChangeUndone ==
  \A k \in 1 .. Len(stack) :
    (stack[k].depth > 0 /\ stack[k].pc \in {"scroll", "click", "links"})
      => /\ stack[k].pageUrl = stack[k].url
         /\ stack[k].navigated \subseteq visitedUrls

\* C13: a failure of a step of one interaction (scroll, click, capture
\* after the click, go-back, settling) leaves the stores as they were and
\* the invocation without failure; the loop goes on with the next
\* discovered element, and after the last one the links are followed when
\* depth > 0.
InteractionFailureConfined ==
  [][ (/\ stack # <<>>
       /\ Top.pc \in {"scroll", "click", "recapture", "goBack", "settle"}
       /\ faults' = faults + 1)
      => (/\ Len(stack') = Len(stack)
          /\ documents' = documents
          /\ vectorStore' = vectorStore
          /\ LET g == stack'[Len(stack)]
             IN /\ g.failure = ""
                /\ g.ei = Top.ei + 1
                /\ g.interactiveElements = Top.interactiveElements
                /\ g.pc = IF g.ei <= Len(g.interactiveElements) THEN "scroll"
                          ELSE IF g.depth > 0 THEN "links" ELSE "finally") ]_vars

\* after an interaction that stored documents, the interaction with the
\* last element failed, and the invocation went on to follow a link
InteractionFailureConfinedWitness ==
  \E k \in 1 .. Len(stack) :
    /\ stack[k].last = "failed"
    /\ stack[k].depth > 0
    /\ stack[k].pc = "await"
    /\ stack[k].failure = ""
    /\ \E i \in 1 .. Len(documents) :
         docInv[i] = stack[k].id /\ documents[i].source[1] = "interaction"

\* C14: the documents (and vector entries) appended for one capture are
\* exactly the chunks whose embedding call succeeded, in chunk order, and
\* a failed embedding call appends nothing, raises nothing and lets the
\* chunk loop go on with the next chunk (after the last chunk: with the
\* interaction loop, and from there with link following).
CapturedChunksStored ==
  /\ [](stack # <<>> /\ Top.phase # "" /\ Top.calls = 0
          => LET f == Top
                 n == Len(f.embedded) - (IF f.pc = "push" THEN 1 ELSE 0)
             IN /\ Len(documents) = f.capStart + n
                /\ Len(vectorStore) = f.capStart + n
                /\ \A i \in 1 .. n :
                     /\ documents[f.capStart + i].content =
                          f.documentChunks[f.embedded[i]]
                     /\ vectorStore[f.capStart + i].embedding =
                          EmbeddingOf(f.documentChunks[f.embedded[i]])
                     /\ i > 1 => f.embedded[i - 1] < f.embedded[i])
  /\ [][ (/\ stack # <<>>
          /\ Top.pc = "embed"
          /\ faults' = faults + 1)
         => (/\ Len(stack') = Len(stack)
             /\ documents' = documents
             /\ vectorStore' = vectorStore
             /\ LET g == stack'[Len(stack)]
                IN /\ g.failure = ""
                   /\ g.embedded = Top.embedded
                   /\ g.ci = Top.ci + 1
                   /\ g.ci <= Len(g.documentChunks) => g.pc = "embed"
                   /\ g.ci > Len(g.documentChunks) =>
                        IF g.phase = "initial" THEN g.pc = "explore"
                        ELSE g.pc \in {"goBack", "scroll", "links", "finally"}) ]_vars

\* the re-capture after a click gave two chunks: the embedding of the first
\* failed, the second was stored, and the invocation went on to its links
CapturedChunksStoredWitness ==
  /\ stack # <<>>
  /\ Top.phase = "interaction"
  /\ Len(Top.documentChunks) = 2
  /\ Top.embedded = <<2>>
  /\ Top.pc = "links"
  /\ Len(documents) = Top.capStart + 1

IsPrefix(s, t) == Len(s) <= Len(t) /\ SubSeq(t, 1, Len(s)) = s

\* C15: every step of a crawlDynamicSite invocation and every step of a
\* processCrawledData call leaves the documents and the vector entries
\* that were stored before it in place: the previous sequences are prefixes
\* of the new ones (entries are only appended, never removed, reordered or
\* changed).
StoresAppendOnly ==
  [][ (\/ stack # <<>> \/ stack' # <<>>
       \/ adapter.pc # "idle" \/ adapter'.calls # adapter.calls)
      => (/\ IsPrefix(documents, documents')
          /\ IsPrefix(vectorStore, vectorStore')
          /\ IsPrefix(adapter.documents, adapter'.documents)
          /\ IsPrefix(adapter.vectorStore, adapter'.vectorStore)) ]_vars

\* a second processCrawledData call, in which an embedding failed, has
\* appended documents after those of the first call
StoresAppendOnlyWitness ==
  /\ adapter.calls = 2
  /\ adapter.docsAtCall > 0
  /\ Len(adapter.documents) > adapter.docsAtCall + 1
  /\ adapter.embFailed
  /\ adapter.outcome = "returned"

\* the documents of a result list, as the data model identifies them for
\* the fusion: by url and first 50 characters of content
Identity(doc) == <<doc.url, Substring(doc.content, PrefixLen)>>

Identities(results) == {Identity(documents[results[i]]) : i \in 1 .. Len(results)}

\* hybridSearch has returned
Combined == search.pc \in {"generate", "done"}
            /\ search.path \in {"hybridSearch", "generateResponse"}

\* C16 (as claimed): in the list hybridSearch returns, no document found by
\* only one of the two searches precedes a document found by both.
BothBeforeOne ==
  Combined =>
    \A i, j \in 1 .. Len(search.results) :
      LET both(r) == /\ Identity(documents[r]) \in Identities(search.semanticResults)
                     /\ Identity(documents[r]) \in Identities(search.bm25Results)
      IN i < j => ~(~both(search.results[i]) /\ both(search.results[j]))

\* C17 (as claimed): when the query embedding cannot be obtained, the
\* semantic result is empty and hybridSearch returns the first topK of the
\* lexical results asked with topK * 2, in lexical rank order.
LexicalFallback ==
  (Combined /\ search.embFailed) =>
    /\ search.semanticResults = <<>>
    /\ search.results =
         Slice(BM25Search(search.fieldScores, search.topK * 2), search.topK)

\* C18 (as claimed): a query path that retrieved no document has called
\* the chat-completion service not at all and answers with its fixed
\* no-information message and no sources.
NoDocumentsNoCompletion ==
  (/\ search.pc = "done"
   /\ search.path \in {"generateResponse", "processQuery", "langgraph"}
   /\ Len(search.results) = 0)
  => /\ search.llmCalls = 0
     /\ search.answer \in {NoInformation.generateResponse,
                           NoInformation.processQuery}
     /\ search.sources = <<>>

\* C19: BM25Ranker.search returns the first topK of the documents whose
\* total weighted score is positive, by decreasing score, documents of
\* equal score in their original order; slicing before filtering, as the
\* code does, gives what filtering before slicing gives.
RankedPositiveTopK ==
  search.bm25TopK > 0 =>
    LET r == search.bm25Results
        k == search.bm25TopK
        score(d) == TotalScore(search.fieldScores[d])
        positive == {d \in 1 .. Len(documents) : score(d) > 0}
        before(d, e) == score(d) > score(e) \/ (score(d) = score(e) /\ d < e)
        scores == [idx \in 1 .. Len(documents) |-> [doc |-> idx, score |-> score(idx)]]
        filtered == Slice(Sort("score", SelectSeq(scores, LAMBDA item : item.score > 0)), k)
    IN /\ Len(r) = IF Cardinality(positive) < k THEN Cardinality(positive) ELSE k
       /\ \A i \in 1 .. Len(r) : r[i] \in positive
       /\ \A i, j \in 1 .. Len(r) : i < j => before(r[i], r[j])
       /\ \A i \in 1 .. Len(r) :
            \A d \in positive \ {r[j] : j \in 1 .. Len(r)} : before(r[i], d)
       /\ r = [i \in 1 .. Len(filtered) |-> filtered[i].doc]

\* a search returned topK documents, two of them of equal score, left a
\* document of positive score out and met a document of score <= 0
RankedPositiveTopKWitness ==
  /\ search.bm25TopK > 0
  /\ Len(search.bm25Results) = search.bm25TopK
  /\ \E i, j \in 1 .. Len(search.bm25Results) :
       /\ i < j
       /\ TotalScore(search.fieldScores[search.bm25Results[i]])
            = TotalScore(search.fieldScores[search.bm25Results[j]])
  /\ \E d \in 1 .. Len(documents) :
       /\ TotalScore(search.fieldScores[d]) > 0
       /\ \A i \in 1 .. Len(search.bm25Results) : search.bm25Results[i] # d
  /\ \E d \in 1 .. Len(documents) : TotalScore(search.fieldScores[d]) < 0

\* the documents search returns when the stored documents are listed in
\* the order p (document p[i] at position i), each with its scores
SearchPermuted(p) ==
  LET r == BM25Search([i \in 1 .. Len(documents) |-> search.fieldScores[p[i]]],
                      search.topK)
  IN {p[r[i]] : i \in 1 .. Len(r)}

Searched == search.pc = "done" /\ search.path = "search"

\* a returned document and a document left out have the same score
TiedAtCut ==
  \E i \in 1 .. Len(search.results) :
    \E d \in 1 .. Len(documents) :
      /\ \A j \in 1 .. Len(search.results) : search.results[j] # d
      /\ TotalScore(search.fieldScores[d])
           = TotalScore(search.fieldScores[search.results[i]])

\* C20 (as claimed): for a fixed query and topK, listing the documents in
\* another order does not change the set of documents search returns.
SearchOrderIndependent ==
  Searched =>
    \A p \in Permutations(1 .. Len(documents)) :
      SearchPermuted(p) = {search.results[i] : i \in 1 .. Len(search.results)}

\* C20 (amended): listing the documents in another order does not change
\* the set of documents search returns, unless a returned document has the
\* same total score as a document left out (ties are broken by the order of
\* the documents); the number of returned documents and their scores never
\* change.
SearchOrderIndependentUntied ==
  Searched =>
    \A p \in Permutations(1 .. Len(documents)) :
      LET returned == {search.results[i] : i \in 1 .. Len(search.results)}
          ScoreCount(set, v) ==
            Cardinality({d \in set : TotalScore(search.fieldScores[d]) = v})
      IN /\ ~TiedAtCut => SearchPermuted(p) = returned
         /\ \A v \in {TotalScore(fs) : fs \in FieldScoreSet} : ScoreCount(SearchPermuted(p), v) = ScoreCount(returned, v)

\* a search over five documents returned two of three documents of
\* positive, pairwise different or equal scores, none tied with one left out
SearchOrderIndependentUntiedWitness ==
  /\ Searched
  /\ Len(documents) = 5
  /\ Len(search.results) = 2
  /\ ~TiedAtCut
  /\ Cardinality({d \in 1 .. Len(documents) :
                    TotalScore(search.fieldScores[d]) > 0}) >= 3

\* C21: cosineSimilarity returns 0 when one of its arguments is a zero
\* vector, and never NaN: no similarity semanticSearch computes is NaN,
\* and the similarities to a zero query vector, or of a zero stored vector,
\* are 0.
CosineZeroVector ==
  (search.pc # "semantic" /\ search.queryEmbedding # <<>>) =>
    \A idx \in 1 .. Len(search.similarities) :
      /\ search.similarities[idx].score # NaN
      /\ (Dot(search.queryEmbedding, search.queryEmbedding) = 0
          \/ Dot(vectorStore[idx].embedding, vectorStore[idx].embedding) = 0)
           => search.similarities[idx].score = 0

\* the empty string as a text: one paragraph holding one empty word
EmptyText == << <<"">> >>

\* a segment made of one word of more than maxTokens tokens
SingleLongWord(segment, maxTokens) ==
  /\ Len(segment) = 1
  /\ Len(segment[1]) = 1
  /\ TokenCount(segment[1][1]) > maxTokens

\* C22: every segment chunkText returns has at most maxTokens tokens,
\* unless it is a single word of more than maxTokens tokens.
ChunksWithinLimit ==
  chunker.pc = "done" =>
    \A i \in 1 .. Len(chunker.chunks) :
      \/ TextTokens(chunker.chunks[i]) <= chunker.maxTokens
      \/ SingleLongWord(chunker.chunks[i], chunker.maxTokens)

\* C23: chunkText never returns an empty segment.
NoEmptyChunk ==
  chunker.pc = "done" =>
    \A i \in 1 .. Len(chunker.chunks) : chunker.chunks[i] # EmptyText

\* the words of a paragraph, without the empty strings between spaces
ParagraphWords(p) == SelectSeq(p, LAMBDA w : w # "")

\* the words of a list of paragraphs, in order
RECURSIVE TextWords(_)
TextWords(text) ==
  IF text = <<>> THEN <<>>
  ELSE ParagraphWords(Head(text)) \o TextWords(Tail(text))

\* the words of a list of segments, read in segment order
RECURSIVE ChunkWordsInOrder(_)
ChunkWordsInOrder(chunks) ==
  IF chunks = <<>> THEN <<>>
  ELSE TextWords(Head(chunks)) \o ChunkWordsInOrder(Tail(chunks))

\* C24: the words of the segments chunkText returns, read in segment
\* order, are the words of the input in their order: none is dropped,
\* duplicated or moved.
ChunksKeepWords ==
  chunker.pc = "done" =>
    ChunkWordsInOrder(chunker.chunks) = TextWords(chunker.text)

\* a text of three paragraphs whose first paragraph was split into words
\* and whose other paragraphs went into two more segments
ChunksKeepWordsWitness ==
  /\ chunker.pc = "done"
  /\ Len(chunker.text) = 3
  /\ Len(chunker.chunks) >= 4
  /\ ParagraphTokens(chunker.text[1]) > chunker.maxTokens
  /\ Len(TextWords(chunker.text)) >= 4

\* the file holds no JSON object: it is missing, is not JSON, or is JSON
\* of another kind of value
NotAnObject(file) ==
  \/ ~file.exists
  \/ ~JsonParse(file.text).ok
  \/ JsonParse(file.text).type # "object"

\* the stores of the instance and of the adapter are as before the call
StoresAsBefore ==
  /\ documents = kb.before.documents
  /\ vectorStore = kb.before.vectorStore
  /\ adapter.documents = kb.before.adapterDocuments
  /\ adapter.vectorStore = kb.before.adapterVectorStore

\* C25 (as claimed): an import from a missing file, from a text that is not
\* JSON or from JSON that is not an object returns false and leaves the
\* stores of the instance, and of the adapter that loads through it, as
\* they were.
FailedImportKeepsStores ==
  (kb.last \in {"import", "load"} /\ NotAnObject(kb.fileAtCall)) =>
    ~kb.result /\ StoresAsBefore

\* the cases in which importKnowledgeBase fails
ImportFails(file) ==
  \/ ~file.exists
  \/ ~JsonParse(file.text).ok
  \/ JsonParse(file.text).type = "null"

\* C25 (amended): the import fails exactly for a missing file, a text that
\* is not JSON and the JSON value null; it then returns false and leaves
\* the stores of the instance and of the adapter as they were.  Every other
\* JSON value is imported: the call returns true.
FailedImportKeepsStoresNull ==
  kb.last \in {"import", "load"} =>
    /\ kb.result = ~ImportFails(kb.fileAtCall)
    /\ ~kb.result => StoresAsBefore

\* the adapter, holding a loaded knowledge base, loads again from a file
\* that an export has cut short: both its stores and those of its
\* ragSystem are non-empty and kept
FailedImportKeepsStoresNullWitness ==
  /\ kb.last = "load"
  /\ ~kb.result
  /\ kb.fileAtCall.exists
  /\ documents # <<>>
  /\ adapter.documents # <<>>

\* C26: an import of the file that exportKnowledgeBase wrote, into the same
\* or a new instance, returns true and yields the documents and the
\* vector entries held when the file was written, in the same order.
ExportImportRoundTrip ==
  (kb.last \in {"import", "load"} /\ kb.fileExported) =>
    /\ kb.result
    /\ documents = kb.exported.documents
    /\ vectorStore = kb.exported.vectorStore

\* two documents and their vectors were exported, and imported by a new
\* instance whose stores were empty
ExportImportRoundTripWitness ==
  /\ kb.last = "import"
  /\ kb.fileExported
  /\ kb.before.documents = <<>>
  /\ Len(kb.exported.documents) = 2
  /\ Len(kb.exported.vectorStore) = 2
  /\ documents # <<>>

\* C27: once importKnowledgeBase has returned true, documents and
\* vectorStore have the same length, and semanticSearch returns elements
\* of documents only (no position beyond the documents).
ImportedStoresAligned ==
  kb.imported =>
    /\ Len(documents) = Len(vectorStore)
    /\ kb.last = "search" =>
         \A i \in 1 .. Len(kb.found) : kb.found[i] \in 1 .. Len(documents)

\* position of a selector in the iteration of interactiveSelectors
SelectorIndex(selector) ==
  CHOOSE k \in 1 .. Len(AllSelectors) : AllSelectors[k] = selector

CategoryIndex(category) ==
  CHOOSE k \in 1 .. Len(InteractiveSelectors) :
    InteractiveSelectors[k].category = category

\* an error was raised while the selector was handled: by page.$$, or by a
\* call on one of the elements it matched
Errored(selector) ==
  \/ selector \in explorer.failed
  \/ \E i \in 1 .. Len(explorer.elements) :
       explorer.elements[i].selector = selector /\ explorer.elements[i].detached

\* C28: an error raised while one selector is handled does not abort the
\* scan of exploreInteractiveElements: every element of non-empty bounding
\* box matched by a selector handled without error is returned, and the
\* returned list is in category order, then selector order, then match
\* order.
ExploreSurvivesErrors ==
  explorer.pc = "done" =>
    LET found == explorer.interactiveElements
    IN /\ \A i \in 1 .. Len(explorer.elements) :
            (explorer.elements[i].box /\ ~Errored(explorer.elements[i].selector))
              => \E j \in 1 .. Len(found) : found[j] = explorer.elements[i]
       /\ \A i, j \in 1 .. Len(found) :
            i < j =>
              \/ CategoryIndex(found[i].category) < CategoryIndex(found[j].category)
              \/ /\ found[i].category = found[j].category
                 /\ SelectorIndex(found[i].selector) < SelectorIndex(found[j].selector)
              \/ /\ found[i].selector = found[j].selector
                 /\ found[i].node < found[j].node

\* the lookup of the first selector raised, losing the element it
\* matches; the elements of the second and third selector are returned, in
\* selector order although the document lists them the other way round
ExploreSurvivesErrorsWitness ==
  /\ explorer.pc = "done"
  /\ explorer.failed = {AllSelectors[1]}
  /\ Len(explorer.elements) = 3
  /\ explorer.elements[1].selector = AllSelectors[3]
  /\ explorer.elements[2].selector = AllSelectors[1]
  /\ explorer.elements[3].selector = AllSelectors[2]
  /\ \A i \in 1 .. 3 : explorer.elements[i].box /\ ~explorer.elements[i].detached
  /\ explorer.interactiveElements = <<explorer.elements[3], explorer.elements[1]>>

\* C29: once crawlWebsite (processCrawledData) has returned, the stores of
\* the adapter's ragSystem, on which its hybridSearch, generateResponse and
\* saveKnowledgeBase operate, equal the adapter's own documents and
\* vectorStore, without a call of importToRAG.
AdapterFeedsRagSystem ==
  adapter.outcome = "returned" =>
    /\ documents = adapter.documents
    /\ vectorStore = adapter.vectorStore

\* C30: getWebsiteData(url, forceRefresh) returns the cached documents
\* without invoking a crawler when forceRefresh is false and an entry for
\* url exists whose age is below cacheExpiration; in every other case it
\* crawls; after a crawl that returned, the entry of url carries the time
\* at which that crawl returned.
CacheUsedWhenFresh ==
  cache.last.outcome # "none" =>
    LET last == cache.last
        fresh == /\ ~last.forceRefresh
                 /\ last.cachedData # NoEntry
                 /\ last.start - last.cachedData.timestamp < cache.cacheExpiration
    IN /\ fresh => /\ ~last.crawled
                   /\ last.returned = last.cachedData.documents
                   /\ last.returnedDocs = last.cachedDocs
       /\ ~fresh => last.crawled
       /\ last.outcome = "crawled"
            => /\ last.url \in DOMAIN cache.dataCache
               /\ cache.dataCache[last.url].timestamp = last.end
               /\ last.start <= last.end

\* a call found an entry younger than cacheExpiration and returned it; an
\* earlier call had crawled, and the clock has advanced since
CacheUsedWhenFreshWitness ==
  /\ cache.last.outcome = "cached"
  /\ cache.last.returnedDocs # <<>>
  /\ cache.last.start > cache.last.cachedData.timestamp
  /\ cache.calls = 2

\* the documents of a list all come from a crawl of url
OnlyOf(url, docs) == \A i \in DOMAIN docs : docs[i].url = url

\* C31: the list getWebsiteData(url) returns and the list cached for url
\* hold only documents obtained by crawling url (so a crawl of another url
\* does not change a cached list), and the allDocuments that processQuery
\* collects over its urls holds each document at most once.
CachedListOnlyOfUrl ==
  /\ \A u \in DOMAIN cache.dataCache :
       OnlyOf(u, Deref(cache.dataCache[u].documents))
  /\ cache.last.outcome # "none" => OnlyOf(cache.last.url, cache.last.returnedDocs)
  /\ \A i, j \in DOMAIN cache.query.allDocuments :
       cache.query.allDocuments[i] = cache.query.allDocuments[j] => i = j

\* C32: when the crawl inside getWebsiteData raises, the call returns: the
\* list of the entry that url had when the call started, expired or not,
\* or an empty list when it had none, and the entry of url (its list and
\* its timestamp) is the one it had before.
FailedCrawlFallsBack ==
  cache.last.outcome = "failed" =>
    LET last == cache.last
    IN /\ last.crawled
       /\ CacheGet(cache.dataCache, last.url) = last.cachedData
       /\ IF last.cachedData = NoEntry
          THEN /\ last.returned = "none"
               /\ last.returnedDocs = <<>>
               /\ last.url \notin DOMAIN cache.dataCache
          ELSE /\ last.returned = last.cachedData.documents
               /\ last.returnedDocs = Deref(last.returned)

\* a crawl of a url whose entry had expired raised, and the call returned
\* the documents of that entry
FailedCrawlFallsBackWitness ==
  /\ cache.last.outcome = "failed"
  /\ cache.last.cachedData # NoEntry
  /\ ~cache.last.forceRefresh
  /\ cache.last.start - cache.last.cachedData.timestamp >= cache.cacheExpiration
  /\ cache.last.returnedDocs # <<>>

\* C33: a run of the workflow executes its steps in the order process_query,
\* crawl_websites, filter_documents, generate_response, each at most once;
\* once a step has set the error field no later step is executed, and run
\* returns that error.
WorkflowStopsOnError ==
  /\ graph.trace = SubSeq(Nodes, 1, Len(graph.trace))
  /\ graph.firstError # NoError
       => /\ Len(graph.trace) = graph.firstError.at
          /\ graph.result.how = "returned" /\ graph.thrown = "null"
               => graph.result.error = graph.firstError.error

\* C39: when run has returned, by its try or by its catch, pageBrowser is
\* null; in a run that follows, every crawlDynamicSite call is made after
\* the run launched a browser.
RunClosesBrowser ==
  /\ graph.pc = "idle" /\ graph.result.how = "returned" => ~pageBrowser
  /\ graph.previous \in {"none", "returned"} => ~graph.crawledUnlaunched

\* a second run, after a first that returned, launched a browser, crawled,
\* and returned by its catch because invoke raised: the browser is closed
RunClosesBrowserWitness ==
  /\ graph.runs = 2
  /\ graph.previous = "returned"
  /\ graph.launched
  /\ Len(graph.trace) >= 2
  /\ documents # <<>>
  /\ graph.thrown = "invoke"
  /\ graph.pc = "idle"
  /\ graph.result.how = "returned"
  /\ ~pageBrowser

\* combinedResults of hybridSearch after its two loops
Fused ==
  AddLexical(AddSemantic(<<>>, search.semanticResults, documents),
             search.bm25Results, documents)

\* the candidate documents: the hits of the two searches
SemanticHits == {search.semanticResults[i] : i \in DOMAIN search.semanticResults}

LexicalHits == {search.bm25Results[i] : i \in DOMAIN search.bm25Results}

Prefix(doc) == Substring(doc.content, PrefixLen)

\* C34: the list hybridSearch returns never holds two documents with the
\* same url and the same first 50 characters of content, and two candidates
\* with the same url whose first 50 characters differ have separate entries
\* in the fused map.
FusedByUrlAndPrefix ==
  Combined =>
    /\ \A i, j \in DOMAIN search.results :
         Identity(documents[search.results[i]])
           = Identity(documents[search.results[j]]) => i = j
    /\ \A a, b \in SemanticHits \cup LexicalHits :
         (/\ documents[a].url = documents[b].url
          /\ Prefix(documents[a]) # Prefix(documents[b]))
         => /\ KeyIndex(Fused, Key(documents[a])) # 0
            /\ KeyIndex(Fused, Key(documents[b])) # 0
            /\ KeyIndex(Fused, Key(documents[a])) # KeyIndex(Fused, Key(documents[b]))

\* of three chunks of page u that were candidates, two of them equal in
\* their first 50 characters, hybridSearch returned one of the equal ones
\* and the one that differs
FusedByUrlAndPrefixWitness ==
  /\ Combined
  /\ search.path = "hybridSearch"
  /\ documents = <<DocU1, DocU4, DocU2>>
  /\ SemanticHits = {1, 2, 3}
  /\ Len(search.results) = 2
  /\ {Identity(documents[search.results[i]]) : i \in 1 .. 2}
       = {Identity(DocU1), Identity(DocU4)}

\* C35: hybridSearch never merges two candidates with different urls into
\* one fused entry, and an entry is marked 'in both' only if a semantic hit
\* and a lexical hit with its key have the same url and the same first 50
\* characters of content.
MergesOnlySameUrl ==
  Combined =>
    /\ \A a, b \in SemanticHits \cup LexicalHits :
         documents[a].url # documents[b].url
           => Key(documents[a]) # Key(documents[b])
    /\ \A i \in DOMAIN Fused :
         Fused[i].inBoth
           => \E s \in SemanticHits, l \in LexicalHits :
                /\ Key(documents[l]) = Fused[i].key
                /\ Identity(documents[s]) = Identity(documents[l])

\* the first occurrences of the elements of a sequence, in its order
FirstOccurrences(seq) ==
  LET keep == {i \in DOMAIN seq : \A j \in 1 .. i - 1 : seq[j] # seq[i]}
      RECURSIVE From(_)
      From(i) == IF i > Len(seq) THEN <<>>
                 ELSE (IF i \in keep THEN <<seq[i]>> ELSE <<>>) \o From(i + 1)
  IN From(1)

\* C36: hybridSearch(query, topK) returns at most topK documents: the first
\* topK of the entries found by both searches in semantic rank order, then
\* those found by the semantic search only in semantic rank order, then
\* those found by the lexical search only in lexical rank order; the list
\* is empty exactly when both candidate lists are empty.
FusionOrder ==
  Combined =>
    LET ids(results) == [i \in DOMAIN results |-> Identity(documents[results[i]])]
        sem == FirstOccurrences(ids(search.semanticResults))
        lex == FirstOccurrences(ids(search.bm25Results))
        In(seq, x) == \E i \in DOMAIN seq : seq[i] = x
        both == SelectSeq(sem, LAMBDA x : In(lex, x))
        semOnly == SelectSeq(sem, LAMBDA x : ~In(lex, x))
        lexOnly == SelectSeq(lex, LAMBDA x : ~In(sem, x))
    IN /\ Len(search.results) <= search.topK
       /\ ids(search.results) = Slice(both \o semOnly \o lexOnly, search.topK)
       /\ search.results = <<>>
            <=> (search.semanticResults = <<>> /\ search.bm25Results = <<>>)

\* the contexts opened by invocation r and the invocations below it that
\* are open
OpenInTree(r) ==
  {c \in 1 .. Len(contexts) :
     /\ contexts[c].open
     /\ contexts[c].owner = r \/ Descends(contexts[c].owner, r)}

\* C37: in the crawl tree of a top-level invocation with depth d >= 0, at
\* most d + 1 browsing contexts are open at the same time, and they are
\* closed in the reverse order of their opening: while a context opened by
\* an invocation below another one is open, that other one's is open too.
ContextsNested ==
  /\ \A r \in 1 .. Len(invLog) :
       (invLog[r].parent = 0 /\ invLog[r].depth >= 0)
         => Cardinality(OpenInTree(r)) <= invLog[r].depth + 1
  /\ \A c1, c2 \in 1 .. Len(contexts) :
       (contexts[c2].open /\ Descends(contexts[c2].owner, contexts[c1].owner))
         => contexts[c1].open

\* 1 + 5 + ... + 5^d
RECURSIVE TreeBound(_)
TreeBound(d) == IF d <= 0 THEN 1 ELSE 1 + LinkCap * TreeBound(d - 1)

\* the invocations of the crawl tree of top-level invocation r
Tree(r) == {i \in 1 .. Len(invLog) : i = r \/ Descends(i, r)}

RECURSIVE BatchDocuments(_, _)
BatchDocuments(crawledData, maxTokens) ==
  IF crawledData = <<>> THEN <<>>
  ELSE LET item == Head(crawledData)
           chunks == chunkText(item.content, maxTokens)
           docs == IF item.success /\ item.content # <<>>
                   THEN [i \in 1 .. Len(chunks) |->
                           [url |-> item.url,
                            title |-> IF item.title = "" THEN item.url ELSE item.title,
                            content |-> chunks[i], chunkIndex |-> i - 1,
                            source |-> "crawl4ai"]]
                   ELSE <<>>
       IN docs \o BatchDocuments(Tail(crawledData), maxTokens)

\* sub can be obtained from seq by leaving elements out
RECURSIVE IsSubsequence(_, _)
IsSubsequence(sub, seq) ==
  IF sub = <<>> THEN TRUE
  ELSE IF seq = <<>> THEN FALSE
  ELSE IF Head(sub) = Head(seq) THEN IsSubsequence(Tail(sub), Tail(seq))
  ELSE IsSubsequence(sub, Tail(seq))

\* C40: processCrawledData stores nothing for an item with success = false
\* or empty content and goes on with the next item; for the other items it
\* appends, in order, one document and one vector entry per chunk whose
\* embedding succeeded, with chunkIndex the chunk's position in the item's
\* chunk list; the two stores have the same length throughout, and entry i
\* of one belongs to entry i of the other.
BatchStoresAlignedPairs ==
  /\ Len(adapter.documents) = Len(adapter.vectorStore)
  /\ \A i \in 1 .. Len(adapter.documents) :
       /\ adapter.vectorStore[i].url = adapter.documents[i].url
       /\ adapter.vectorStore[i].embedding = EmbeddingOf(adapter.documents[i].content)
  /\ (adapter.outcome = "returned" /\ adapter.pc = "idle")
       => LET appended == SubSeq(adapter.documents, adapter.docsAtCall + 1,
                                 Len(adapter.documents))
              all == BatchDocuments(adapter.crawledData, options.maxTokens)
          IN /\ IsSubsequence(appended, all)
             /\ ~adapter.embFailed => appended = all

\* a batch with an item that failed and an item without content between
\* items with content has been processed, one embedding having failed: the
\* item after the skipped ones has its documents
BatchStoresAlignedPairsWitness ==
  /\ adapter.outcome = "returned"
  /\ adapter.pc = "idle"
  /\ adapter.calls = 1
  /\ adapter.embFailed
  /\ Len(adapter.crawledData) = 4
  /\ \E i, j \in 1 .. Len(adapter.documents) :
       /\ adapter.documents[i].url = "a/0"
       /\ adapter.documents[j].url = "b/0"
       /\ adapter.documents[j].chunkIndex = 1
  /\ \A i \in 1 .. Len(adapter.documents) :
       adapter.documents[i].url \notin {"a/1", "a/2"}

====
